---- MODULE Spec2Model ----
(***************************************************************************)
(* Frame engine of the mesh simulator: Node (node.py), Message             *)
(* (message.py and simulator/message.py), MessageProcessor,                *)
(* ComparisonPhaseManager and LearningPhaseManager.                        *)
(*                                                                         *)
(* One action per handler: execute_comparison_frame,                       *)
(* execute_learning_frame, reset_simulation, set_algorithm_mode.           *)
(* The handlers are deterministic; the nondeterminism is in the initial    *)
(* configuration (topology, workload, which Message class the import       *)
(* "from message import Message" resolves to) and in the order in which    *)
(* the caller invokes the handlers.                                        *)
(***************************************************************************)
EXTENDS Integers, Sequences, FiniteSets, TLC

(***************************************************************************)
(* Bounds                                                                  *)
(***************************************************************************)
\* frames of a comparison phase (ComparisonPhaseManager.total_frames)
TotalFrames == 8
\* number of reset_simulation calls explored
MaxResets == 1
\* number of set_algorithm_mode calls explored
MaxModeSwitches == 1

(***************************************************************************)
(* Program constants                                                       *)
(***************************************************************************)
\* Message.hop_limit as set by Message.__init__ without network_size
DefaultHopLimit == 4
\* LearningPhaseManager.generate_learning_messages: message_interval
message_interval == 4
\* generate_comparison_messages: start_frame <= total_frames - 4
StartFrameMargin == 4

(***************************************************************************)
(* Sequence helpers                                                        *)
(***************************************************************************)
Range(s) == {s[i] : i \in DOMAIN s}

Last(s) == s[Len(s)]

Min(S) == CHOOSE x \in S : \A y \in S : x <= y

\* iteration over a Python set/dict of small ints: ascending
RECURSIVE SetToSeq(_)
SetToSeq(S) ==
    IF S = {} THEN <<>>
    ELSE LET x == Min(S) IN <<x>> \o SetToSeq(S \ {x})

(***************************************************************************)
(* Topologies: symmetric neighbor sets, nodes 0..n-1 created in id order   *)
(***************************************************************************)
Sym(E) == E \cup {<<e[2], e[1]>> : e \in E}

Topo(n, E) ==
    [n |-> n,
     neighbors |-> [i \in 0..(n-1) |-> {j \in 0..(n-1) : <<i, j>> \in Sym(E)}]]

\* S1: line 0-1-2-3
Line4 == Topo(4, {<<0,1>>, <<1,2>>, <<2,3>>})
\* S3: triangle
Triangle == Topo(3, {<<0,1>>, <<1,2>>, <<0,2>>})
\* S2: star, centre 0, leaves 1 and 2
Star3 == Topo(3, {<<0,1>>, <<0,2>>})
\* ring of five
Ring5 == Topo(5, {<<0,1>>, <<1,2>>, <<2,3>>, <<3,4>>, <<4,0>>})
Ring5Chord == Topo(5, {<<0,1>>, <<1,2>>, <<2,3>>, <<3,4>>, <<4,0>>, <<1,3>>})
\* S5: chain 0-1-2-3-4-5
Chain6 == Topo(6, {<<0,1>>, <<1,2>>, <<2,3>>, <<3,4>>, <<4,5>>})
\* line 0-1-2-3 with two leaves 4 and 5 on node 3
Fork6 == Topo(6, {<<0,1>>, <<1,2>>, <<2,3>>, <<3,4>>, <<3,5>>})

(***************************************************************************)
(* Message (message.py -- class "message" -- and simulator/message.py --  *)
(* class "simulator_message").  A message is a record; the field            *)
(* completion_reason uses the string "None" for Python's None.             *)
(***************************************************************************)
MessageClasses == {"message", "simulator_message"}

NewMessage(src, tgt, hl, sf) ==
    [source |-> src, target |-> tgt, hop_limit |-> hl, start_frame |-> sf,
     is_active |-> FALSE, is_completed |-> FALSE, target_received |-> FALSE,
     completion_reason |-> "None", status |-> "FAILED", paths |-> <<>>]

start_transmission(m) ==
    [m EXCEPT !.is_active = TRUE, !.paths = Append(@, <<m.source>>)]

target_reached(m, cls) ==
    IF cls = "message"
    THEN [m EXCEPT !.target_received = TRUE, !.status = "SUCCESS"]
    ELSE [m EXCEPT !.target_received = TRUE]

complete_message(m, reason, cls) ==
    IF cls = "message"
    THEN IF reason = "reached_target"
         THEN [m EXCEPT !.target_received = TRUE, !.is_completed = TRUE,
                        !.is_active = FALSE, !.completion_reason = reason]
         ELSE IF reason = "hop_limit_exceeded"
         THEN [m EXCEPT !.is_completed = TRUE, !.is_active = FALSE,
                        !.completion_reason = reason]
         ELSE m
    ELSE [m EXCEPT !.is_completed = TRUE, !.is_active = FALSE,
                   !.completion_reason = reason,
                   !.status = IF m.target_received THEN "SUCCESS" ELSE "FAILED"]

get_status(m) == m.status

get_state(m) ==
    IF m.is_completed THEN "COMPLETED"
    ELSE IF m.is_active THEN "ACTIVE" ELSE "WAITING"

\* variant: the receiver is not appended to the path
NewPath_NoAppend(sender_path, receiver_id) == sender_path

\* create_new_copy: the path handed back to the receiver ...
NewPath(sender_path, receiver_id) == Append(sender_path, receiver_id)

\* ... and its effect on the message's path list (appended if unique)
create_new_copy(m, sender_id, receiver_id, sender_path) ==
    LET new_path == NewPath(sender_path, receiver_id)
    IN IF new_path \in Range(m.paths) THEN m
       ELSE [m EXCEPT !.paths = Append(@, new_path)]

(***************************************************************************)
(* Node (node.py)                                                          *)
(***************************************************************************)
ClearFlags ==
    [collision |-> FALSE, source |-> FALSE, target |-> FALSE,
     sending |-> FALSE, receiving |-> FALSE]

\* reset_frame_status, flag part (the caller also clears received_messages)
reset_frame_status(f) ==
    [f EXCEPT !.collision = FALSE, !.sending = FALSE, !.receiving = FALSE]

\* variant: only the (message, sender) pair is checked
AcceptsCopy_SenderOnly(ids_n, copies_n, mid, sender_id) ==
    <<mid, sender_id>> \notin copies_n

\* receive_message_copy: the acceptance test
AcceptsCopy(ids_n, copies_n, mid, sender_id) ==
    /\ mid \notin ids_n
    /\ <<mid, sender_id>> \notin copies_n

\* receive_message_copy on the state record s, receiver n
receive_message_copy(s, n, mid, sender_id, sender_path) ==
    IF AcceptsCopy(s.ids[n], s.copies[n], mid, sender_id)
    THEN [s EXCEPT !.copies[n] = @ \cup {<<mid, sender_id>>},
                   !.inbox[n] = Append(@, <<mid, sender_id, sender_path>>),
                   !.ids[n] = @ \cup {mid}]
    ELSE s

_flooding_decision(nbrs) == SetToSeq(nbrs)

_get_direct_children(tree_n, self) ==
    {d \in DOMAIN tree_n : \E i \in DOMAIN tree_n[d] : tree_n[d][i].parent = self}

\* variant: the node taken from nodes_to_check is not added to visited
MarkVisited_Forget(visited, current) == visited

\* _is_in_subtree: "visited.add(current)"
MarkVisited(visited, current) == visited \cup {current}

\* one iteration of the while loop of _is_in_subtree, nodes_to_check not
\* empty: whether the iteration returns True, and the two locals after it
LoopIteration(tree_n, self, subtree_root, nodes_to_check, visited) ==
    LET current == Head(nodes_to_check)
        rest == Tail(nodes_to_check)
    IN IF current \in visited
       THEN [returned |-> FALSE, nodes_to_check |-> rest, visited |-> visited]
       ELSE LET v2 == MarkVisited(visited, current)
            IN IF current = subtree_root
               THEN [returned |-> TRUE, nodes_to_check |-> rest, visited |-> v2]
               ELSE IF current = self
               THEN [returned |-> FALSE, nodes_to_check |-> rest, visited |-> v2]
               ELSE LET entries == IF current \in DOMAIN tree_n
                                   THEN tree_n[current] ELSE <<>>
                        parents == [i \in DOMAIN entries |-> entries[i].parent]
                        fresh(p) == p \notin v2
                    IN [returned |-> FALSE,
                        nodes_to_check |-> rest \o SelectSeq(parents, fresh),
                        visited |-> v2]

\* the while loop of _is_in_subtree: nodes_to_check, visited
RECURSIVE SubtreeSearch(_, _, _, _, _)
SubtreeSearch(tree_n, self, subtree_root, nodes_to_check, visited) ==
    IF nodes_to_check = <<>> THEN FALSE
    ELSE LET r == LoopIteration(tree_n, self, subtree_root, nodes_to_check,
                                visited)
         IN IF r.returned THEN TRUE
            ELSE SubtreeSearch(tree_n, self, subtree_root, r.nodes_to_check,
                               r.visited)

\* variant: only the direct parents of the node are looked at
_is_in_subtree_DirectOnly(tree_n, self, node, subtree_root) ==
    \/ node = subtree_root
    \/ \E i \in DOMAIN tree_n[node] : tree_n[node][i].parent = subtree_root

_is_in_subtree(tree_n, self, node, subtree_root) ==
    IF node = subtree_root THEN TRUE
    ELSE IF tree_n[node] = <<>> THEN FALSE
    ELSE SubtreeSearch(tree_n, self, subtree_root, <<node>>, {})

\* variant: source and target may lie under different direct children
_are_in_same_subtree_AnyChildren(tree_n, self, source, target) ==
    /\ \E child \in _get_direct_children(tree_n, self) :
          _is_in_subtree(tree_n, self, source, child)
    /\ \E child \in _get_direct_children(tree_n, self) :
          _is_in_subtree(tree_n, self, target, child)

_are_in_same_subtree(tree_n, self, source, target) ==
    \E child \in _get_direct_children(tree_n, self) :
        /\ _is_in_subtree(tree_n, self, source, child)
        /\ _is_in_subtree(tree_n, self, target, child)

\* variant: without the fallback to flooding on missing knowledge
_tree_based_decision_NoFallback(tree_n, self, nbrs, m) ==
    IF _are_in_same_subtree(tree_n, self, m.source, m.target)
       \/ ~(tree_n[m.source] # <<>> /\ tree_n[m.target] # <<>>)
    THEN <<>>
    ELSE SetToSeq(nbrs)

_tree_based_decision(tree_n, self, nbrs, m) ==
    IF ~(tree_n[m.source] # <<>> /\ tree_n[m.target] # <<>>)
    THEN SetToSeq(nbrs)
    ELSE IF _are_in_same_subtree(tree_n, self, m.source, m.target)
    THEN <<>>
    ELSE SetToSeq(nbrs)

IsTarget(self, m) == m.target = self

\* variant: without the "I am the target" check
get_routing_decision_NoTargetCheck(tree_n, self, nbrs, m, algorithm_mode) ==
    IF algorithm_mode = "flooding" THEN _flooding_decision(nbrs)
    ELSE _tree_based_decision(tree_n, self, nbrs, m)

get_routing_decision(tree_n, self, nbrs, m, algorithm_mode) ==
    IF IsTarget(self, m) THEN <<>>
    ELSE IF algorithm_mode = "flooding" THEN _flooding_decision(nbrs)
    ELSE _tree_based_decision(tree_n, self, nbrs, m)

\* build_knowledge_tree_from_message; path is 1-based here, my_index is the
\* first position of self in the path
RECURSIVE AddEntries(_, _, _, _, _, _)
AddEntries(tree_n, self, path, my_index, current_frame, i) ==
    IF i >= my_index THEN tree_n
    ELSE LET target_node == path[i]
             distance_to_target == my_index - i
             next_hop == path[my_index - 1]
             parent_in_tree == IF distance_to_target = 1 THEN self ELSE path[i + 1]
             new_entry == [parent |-> parent_in_tree,
                           distance |-> distance_to_target,
                           learned_frame |-> current_frame,
                           next_hop |-> next_hop]
         IN AddEntries([tree_n EXCEPT ![target_node] = Append(@, new_entry)],
                       self, path, my_index, current_frame, i + 1)

\* variant: the new entries replace the entries of their destinations
build_knowledge_tree_from_message_Replace(tree_n, self, path, current_frame) ==
    IF Len(path) < 2 THEN tree_n
    ELSE IF self \notin Range(path) THEN tree_n
    ELSE LET my_index == Min({i \in DOMAIN path : path[i] = self})
             fresh == AddEntries([d \in DOMAIN tree_n |-> <<>>], self, path,
                                 my_index, current_frame, 1)
         IN [d \in DOMAIN tree_n |->
                IF fresh[d] # <<>> THEN fresh[d] ELSE tree_n[d]]

\* variant: my_index is the last position of the path
build_knowledge_tree_from_message_LastIndex(tree_n, self, path, current_frame) ==
    IF Len(path) < 2 THEN tree_n
    ELSE IF self \notin Range(path) THEN tree_n
    ELSE AddEntries(tree_n, self, path, Len(path), current_frame, 1)

build_knowledge_tree_from_message(tree_n, self, path, current_frame) ==
    IF Len(path) < 2 THEN tree_n
    ELSE IF self \notin Range(path) THEN tree_n
    ELSE LET my_index == Min({i \in DOMAIN path : path[i] = self})
         IN AddEntries(tree_n, self, path, my_index, current_frame, 1)

\* variant: the receiver itself is not counted
HopsUsed_OffByOne(new_path) == Len(new_path) - 2

HopsUsed(new_path) == Len(new_path) - 1

\* process_received_messages: "if local_hop_limit <= 0"
HopLimitExhausted(local_hop_limit) == local_hop_limit <= 0

\* variant: the hop-limit test as an "elif" of the target test
QueuesCopy_NotAtTarget(self, m, local_hop_limit) ==
    local_hop_limit > 0 /\ m.target # self

\* process_received_messages: whether the copy goes to pending_messages
\* (the hop-limit test is an "if", not an "elif" of the target test, so the
\* target queues its copy as well)
QueuesCopy(self, m, local_hop_limit) == ~HopLimitExhausted(local_hop_limit)

\* one iteration of the loop of process_received_messages
ProcessOneReceived(s, self, item, current_frame, cls) ==
    LET mid == item[1]
        sender_id == item[2]
        sender_path == item[3]
        m0 == s.msgs[mid]
        new_path == NewPath(sender_path, self)
        m1 == create_new_copy(m0, sender_id, self, sender_path)
        tree2 == build_knowledge_tree_from_message(s.tree[self], self, new_path,
                                                   current_frame)
        local_hop_limit == m1.hop_limit - HopsUsed(new_path)
        m2 == IF m1.target = self /\ ~m1.target_received
              THEN target_reached(m1, cls) ELSE m1
        m3 == IF HopLimitExhausted(local_hop_limit) /\ ~m2.is_completed
              THEN complete_message(m2, "hop_limit_exceeded", cls) ELSE m2
    IN [s EXCEPT !.msgs[mid] = m3,
                 !.tree[self] = tree2,
                 !.pend[self] = IF QueuesCopy(self, m1, local_hop_limit)
                                THEN Append(@, <<mid, new_path, local_hop_limit>>)
                                ELSE @]

RECURSIVE ProcessReceivedLoop(_, _, _, _, _)
ProcessReceivedLoop(s, self, i, current_frame, cls) ==
    IF i > Len(s.inbox[self]) THEN s
    ELSE ProcessReceivedLoop(
             ProcessOneReceived(s, self, s.inbox[self][i], current_frame, cls),
             self, i + 1, current_frame, cls)

\* Node.process_received_messages; the list it returns is, in order, the
\* message id of every inbox item
process_received_messages(s, self, current_frame, cls) ==
    ProcessReceivedLoop(s, self, 1, current_frame, cls)

(***************************************************************************)
(* MessageProcessor (MessageProcessor.py).  The operators work on a record *)
(* s holding the objects the processor touches:                            *)
(*   n, nbrs   the network (node count, neighbor sets)                     *)
(*   msgs      the messages dictionary, by message id                      *)
(*   pend      Node.pending_messages, items <<id, path>> or                *)
(*             <<id, path, local_hop_limit>>                               *)
(*   inbox     Node.received_messages, items <<id, sender_id, path>>       *)
(*   ids       Node.received_message_ids                                   *)
(*   copies    Node.seen_message_copies                                    *)
(*   flags     Node.status_flags                                           *)
(*   tree      Node.knowledge_tree (destination -> list of entries; a      *)
(*             destination is a key iff its list is not empty)             *)
(* and the locals of process_transmissions: expired, queue, sending,       *)
(* collisions, receives, completed, and decisions, the routing decisions   *)
(* taken in _get_node_transmissions (one per pending item sent).           *)
(***************************************************************************)
NodeSeq(s) == [i \in 1..s.n |-> i - 1]

MsgSeq(s) == SetToSeq(DOMAIN s.msgs)

\* the hop limit of a pending item, old (2-tuple) or new (3-tuple) format
ItemHopLimit(item, m) ==
    IF Len(item) >= 3 THEN item[3]
    ELSE m.hop_limit - (Len(item[2]) - 1)

\* _check_expired_messages, first loop, for one node: acc.s is the state,
\* acc.keep the items of the node that are not popped
RECURSIVE ExpireItems(_, _, _, _, _)
ExpireItems(s, self, i, keep, cls) ==
    IF i > Len(s.pend[self]) THEN [s EXCEPT !.pend[self] = keep]
    ELSE LET item == s.pend[self][i]
             mid == item[1]
             m == s.msgs[mid]
         IN IF ItemHopLimit(item, m) <= 0 /\ ~m.is_completed
            THEN ExpireItems(
                     [s EXCEPT !.msgs[mid] = complete_message(m, "hop_limit_exceeded", cls),
                               !.expired = Append(@, mid)],
                     self, i + 1, keep, cls)
            ELSE ExpireItems(s, self, i + 1, Append(keep, item), cls)

RECURSIVE ExpireNodes(_, _, _)
ExpireNodes(s, k, cls) ==
    IF k > s.n THEN s
    ELSE ExpireNodes(ExpireItems(s, k - 1, 1, <<>>, cls), k + 1, cls)

\* _check_stalled_messages: "has_pending"
HasPending(s, mid) ==
    \E nd \in 0..(s.n - 1) : \E i \in DOMAIN s.pend[nd] : s.pend[nd][i][1] = mid

IsStalled_IgnorePending(s, mid) ==
    /\ s.msgs[mid].is_active
    /\ ~s.msgs[mid].is_completed

IsStalled(s, mid) ==
    /\ s.msgs[mid].is_active
    /\ ~s.msgs[mid].is_completed
    /\ ~HasPending(s, mid)

\* _check_stalled_messages: the loop changes no pending list and each
\* message only reads its own flags, so the loop is a map over the messages
_check_stalled_messages(s, cls) ==
    LET stalled == {mid \in DOMAIN s.msgs : IsStalled(s, mid)}
    IN [s EXCEPT !.msgs = [mid \in DOMAIN s.msgs |->
                              IF mid \in stalled
                              THEN complete_message(s.msgs[mid], "hop_limit_exceeded", cls)
                              ELSE s.msgs[mid]],
                 !.expired = @ \o SetToSeq(stalled)]

_check_expired_messages(s, cls) ==
    _check_stalled_messages(ExpireNodes(s, 1, cls), cls)

\* _filter_active_messages over the pending list items; returns the state
\* with pend[self] replaced by active_pending
RECURSIVE FilterItems(_, _, _, _, _, _)
FilterItems(s, self, items, i, active_pending, cls) ==
    IF i > Len(items) THEN [s EXCEPT !.pend[self] = active_pending]
    ELSE LET item == items[i]
             mid == item[1]
             m == s.msgs[mid]
             local_hop_limit == ItemHopLimit(item, m)
         IN IF m.is_completed
            THEN FilterItems(s, self, items, i + 1, active_pending, cls)
            ELSE IF ~m.is_active
            THEN FilterItems(s, self, items, i + 1, active_pending, cls)
            ELSE IF local_hop_limit <= 0
            THEN FilterItems(
                     [s EXCEPT !.msgs[mid] = complete_message(m, "hop_limit_exceeded", cls)],
                     self, items, i + 1, active_pending, cls)
            ELSE FilterItems(s, self, items, i + 1,
                             Append(active_pending, <<mid, item[2], local_hop_limit>>), cls)

_filter_active_messages(s, self, cls) ==
    FilterItems(s, self, s.pend[self], 1, <<>>, cls)

\* variant: the selected algorithm in both phases
ModeFor_Selected(message_type, algorithm_mode) == algorithm_mode

\* _get_node_transmissions: "learning" always floods
ModeFor(message_type, algorithm_mode) ==
    IF message_type = "learning" THEN "flooding" ELSE algorithm_mode

RECURSIVE NodeTransmissions(_, _, _, _, _, _)
NodeTransmissions(s, sender_id, active_pending, i, message_type, algorithm_mode) ==
    IF i > Len(active_pending) THEN <<>>
    ELSE LET item == active_pending[i]
             valid_neighbors ==
                 get_routing_decision(s.tree[sender_id], sender_id,
                                      s.nbrs[sender_id], s.msgs[item[1]],
                                      ModeFor(message_type, algorithm_mode))
         IN [j \in DOMAIN valid_neighbors |->
                <<sender_id, valid_neighbors[j], item[1], item[2], item[3]>>]
            \o NodeTransmissions(s, sender_id, active_pending, i + 1,
                                 message_type, algorithm_mode)

_get_node_transmissions(s, sender_id, message_type, algorithm_mode) ==
    NodeTransmissions(s, sender_id, s.pend[sender_id], 1, message_type, algorithm_mode)

\* the calls of get_routing_decision made by _get_node_transmissions
NodeDecisions(s, sender_id, message_type, algorithm_mode) ==
    [i \in DOMAIN s.pend[sender_id] |->
        [node |-> sender_id, mid |-> s.pend[sender_id][i][1],
         path |-> s.pend[sender_id][i][2],
         receivers |-> get_routing_decision(
                           s.tree[sender_id], sender_id, s.nbrs[sender_id],
                           s.msgs[s.pend[sender_id][i][1]],
                           ModeFor(message_type, algorithm_mode))]]

\* _collect_transmissions, loop body for one sender
CollectNode(s, sender_id, message_type, algorithm_mode, cls) ==
    IF s.pend[sender_id] = <<>> THEN s
    ELSE LET s1 == _filter_active_messages(s, sender_id, cls)
             node_transmissions ==
                 _get_node_transmissions(s1, sender_id, message_type, algorithm_mode)
             s2 == IF node_transmissions # <<>>
                   THEN [s1 EXCEPT !.queue = @ \o node_transmissions,
                                   !.flags[sender_id].sending = TRUE,
                                   !.sending = Append(@, sender_id)]
                   ELSE s1
         IN [s2 EXCEPT !.pend[sender_id] = <<>>,
                       !.decisions = @ \o NodeDecisions(s1, sender_id, message_type,
                                                        algorithm_mode)]

RECURSIVE CollectNodes(_, _, _, _, _)
CollectNodes(s, k, message_type, algorithm_mode, cls) ==
    IF k > s.n THEN s
    ELSE CollectNodes(CollectNode(s, k - 1, message_type, algorithm_mode, cls),
                      k + 1, message_type, algorithm_mode, cls)

_collect_transmissions(s, message_type, algorithm_mode, cls) ==
    CollectNodes(s, 1, message_type, algorithm_mode, cls)

\* _detect_collisions: transmissions_by_receiver[receiver_id]
TransmissionsTo(queue, receiver_id) ==
    SelectSeq(queue, LAMBDA t : t[2] = receiver_id)

\* variant: "if len(transmissions) > 2"
IsCollision_MoreThanTwo(transmissions) == Len(transmissions) > 2

\* _detect_collisions: "if len(transmissions) > 1"
IsCollision(transmissions) == Len(transmissions) > 1

\* variant: only records that follow each other in the list collide
_detect_collisions_Adjacent(s) ==
    LET collision_nodes ==
            {r \in 0..(s.n - 1) :
                \E i \in 1..(Len(s.queue) - 1) :
                    s.queue[i][2] = r /\ s.queue[i + 1][2] = r}
    IN [s EXCEPT !.collisions = collision_nodes,
                 !.flags = [nd \in DOMAIN s.flags |->
                               IF nd \in collision_nodes
                               THEN [s.flags[nd] EXCEPT !.collision = TRUE]
                               ELSE s.flags[nd]]]

_detect_collisions(s) ==
    LET collision_nodes ==
            {r \in 0..(s.n - 1) : IsCollision(TransmissionsTo(s.queue, r))}
    IN [s EXCEPT !.collisions = collision_nodes,
                 !.flags = [nd \in DOMAIN s.flags |->
                               IF nd \in collision_nodes
                               THEN [s.flags[nd] EXCEPT !.collision = TRUE]
                               ELSE s.flags[nd]]]

\* _process_receptions
RECURSIVE ReceptionLoop(_, _)
ReceptionLoop(s, i) ==
    IF i > Len(s.queue) THEN s
    ELSE LET rec == s.queue[i]
             sender_id == rec[1]
             receiver_id == rec[2]
             mid == rec[3]
         IN IF receiver_id \in s.collisions
            THEN ReceptionLoop(s, i + 1)
            ELSE LET accepted == AcceptsCopy(s.ids[receiver_id], s.copies[receiver_id],
                                             mid, sender_id)
                     s1 == receive_message_copy(s, receiver_id, mid, sender_id, rec[4])
                 IN ReceptionLoop(
                        IF accepted
                        THEN [s1 EXCEPT !.receives = Append(@, <<sender_id, receiver_id, mid>>)]
                        ELSE s1,
                        i + 1)

_process_receptions(s) == ReceptionLoop(s, 1)

\* _immediate_color_cleanup
\* variant: the other messages of the node are not looked at
OtherActiveSource_Never(msgs, mid) == FALSE

OtherActiveSource(msgs, mid) ==
    \E o \in DOMAIN msgs :
        /\ o # mid
        /\ msgs[o].is_active /\ ~msgs[o].is_completed
        /\ msgs[o].source = msgs[mid].source

OtherActiveTarget(msgs, mid) ==
    \E o \in DOMAIN msgs :
        /\ o # mid
        /\ msgs[o].is_active /\ ~msgs[o].is_completed
        /\ msgs[o].target = msgs[mid].target

ClearEndpointFlags(flags, msgs, mid) ==
    LET f1 == IF ~OtherActiveSource(msgs, mid)
              THEN [flags EXCEPT ![msgs[mid].source].source = FALSE] ELSE flags
    IN IF ~OtherActiveTarget(msgs, mid)
       THEN [f1 EXCEPT ![msgs[mid].target].target = FALSE] ELSE f1

_immediate_color_cleanup(s, mid) ==
    [s EXCEPT !.flags = ClearEndpointFlags(s.flags, s.msgs, mid)]

\* _process_received_messages: the loop over the list returned by
\* node.process_received_messages (one item per inbox item)
RECURSIVE ProcessedLoop(_, _, _)
ProcessedLoop(s, self, i) ==
    IF i > Len(s.inbox[self]) THEN s
    ELSE LET mid == s.inbox[self][i][1]
         IN IF s.msgs[mid].is_completed
            THEN ProcessedLoop(
                     _immediate_color_cleanup(
                         [s EXCEPT !.completed = Append(@, mid)], mid),
                     self, i + 1)
            ELSE ProcessedLoop(s, self, i + 1)

\* node.process_received_messages() is called without current_frame, so
\* the default value of the parameter is used
DefaultCurrentFrame == 0

\* variant: a node queues every copy it accepted, also the copies whose hop
\* limit is used up, and its completions are not reported to the caller
ReceivedNode_QueuesAllUnreported(s, self, cls) ==
    IF self \in s.collisions THEN [s EXCEPT !.inbox[self] = <<>>]
    ELSE LET inbox == s.inbox[self]
             Budget(i) == s.msgs[inbox[i][1]].hop_limit
                              - HopsUsed(NewPath(inbox[i][3], self))
         IN [s EXCEPT
                !.pend[self] = @ \o [i \in DOMAIN inbox |->
                                        <<inbox[i][1], NewPath(inbox[i][3], self),
                                          Budget(i)>>],
                !.msgs = [mid \in DOMAIN s.msgs |->
                             IF \E i \in DOMAIN inbox :
                                    /\ inbox[i][1] = mid
                                    /\ HopLimitExhausted(Budget(i))
                             THEN complete_message(s.msgs[mid],
                                                   "hop_limit_exceeded", cls)
                             ELSE s.msgs[mid]]]

ReceivedNode(s, self, cls) ==
    IF self \in s.collisions THEN [s EXCEPT !.inbox[self] = <<>>]
    ELSE IF s.inbox[self] # <<>>
    THEN ProcessedLoop(
             process_received_messages([s EXCEPT !.flags[self].receiving = TRUE],
                                       self, DefaultCurrentFrame, cls),
             self, 1)
    ELSE s

RECURSIVE ReceivedNodes(_, _, _)
ReceivedNodes(s, k, cls) ==
    IF k > s.n THEN s
    ELSE ReceivedNodes(ReceivedNode(s, k - 1, cls), k + 1, cls)

_process_received_messages(s, cls) == ReceivedNodes(s, 1, cls)

\* process_transmissions, phase 5
RECURSIVE ExpiredCleanup(_, _)
ExpiredCleanup(s, i) ==
    IF i > Len(s.expired) THEN s
    ELSE ExpiredCleanup(
             IF s.msgs[s.expired[i]].is_completed
             THEN _immediate_color_cleanup(s, s.expired[i]) ELSE s,
             i + 1)

process_transmissions(s, message_type, algorithm_mode, cls) ==
    LET s0 == [s EXCEPT !.expired = <<>>, !.queue = <<>>, !.sending = <<>>,
                        !.collisions = {}, !.receives = <<>>, !.completed = <<>>,
                        !.decisions = <<>>]
        s1 == _check_expired_messages(s0, cls)
        s2 == _collect_transmissions(s1, message_type, algorithm_mode, cls)
        s3 == _detect_collisions(s2)
        s4 == _process_receptions(s3)
        s5 == _process_received_messages(s4, cls)
    IN ExpiredCleanup(s5, 1)

(***************************************************************************)
(* Phase managers (ComparisonPhaseManager.py, LearningPhaseManager.py)     *)
(***************************************************************************)
\* execute_*_frame: "Re-mark source and target nodes for ACTIVE messages"
MarkActive(flags, msgs) ==
    [nd \in DOMAIN flags |->
        [flags[nd] EXCEPT
            !.source = @ \/ \E mid \in DOMAIN msgs :
                               /\ msgs[mid].is_active /\ ~msgs[mid].is_completed
                               /\ msgs[mid].source = nd,
            !.target = @ \/ \E mid \in DOMAIN msgs :
                               /\ msgs[mid].is_active /\ ~msgs[mid].is_completed
                               /\ msgs[mid].target = nd]]

\* variant: compares with the frame counter before the increment
StartsNow_Late(m, current_frame) ==
    m.start_frame = current_frame /\ ~m.is_active

\* variant: without the comparison with the frame counter
StartsNow_AnyFrame(m, current_frame) == ~m.is_active

\* _start_messages_for_frame / _start_learning_messages_for_frame: the test
StartsNow(m, current_frame) ==
    m.start_frame = current_frame + 1 /\ ~m.is_active

\* whether admission marks the message as seen on its source:
\* _start_messages_for_frame does, _start_learning_messages_for_frame does not
MarksSourceSeen(message_type) == message_type = "comparison"

StartOne(s, mid, message_type) ==
    LET m == s.msgs[mid]
    IN [s EXCEPT !.msgs[mid] = start_transmission(m),
                 !.flags[m.source].source = TRUE,
                 !.flags[m.target].target = TRUE,
                 !.ids[m.source] = IF MarksSourceSeen(message_type)
                                   THEN @ \cup {mid} ELSE @,
                 !.pend[m.source] = Append(@, <<mid, <<m.source>>>>)]

RECURSIVE StartLoop(_, _, _, _)
StartLoop(s, order, current_frame, message_type) ==
    IF order = <<>> THEN s
    ELSE StartLoop(
             IF StartsNow(s.msgs[Head(order)], current_frame)
             THEN StartOne(s, Head(order), message_type) ELSE s,
             Tail(order), current_frame, message_type)

_start_messages_for_frame(s, current_frame) ==
    StartLoop(s, MsgSeq(s), current_frame, "comparison")

_start_learning_messages_for_frame(s, current_frame) ==
    StartLoop(s, MsgSeq(s), current_frame, "learning")

\* _clear_message_status / _clear_learning_message_status
RemoveFromPending(pend, mid) ==
    [nd \in DOMAIN pend |-> SelectSeq(pend[nd], LAMBDA item : item[1] # mid)]

_clear_message_status(s, mid) ==
    [s EXCEPT !.pend = RemoveFromPending(s.pend, mid),
              !.flags = ClearEndpointFlags(s.flags, s.msgs, mid)]

RECURSIVE ClearCompleted(_, _)
ClearCompleted(s, i) ==
    IF i > Len(s.completed) THEN s
    ELSE ClearCompleted(_clear_message_status(s, s.completed[i]), i + 1)

\* execute_comparison_frame up to (not including) "self.current_frame += 1"
execute_comparison_frame(s, current_frame, algorithm_mode, cls) ==
    LET s1 == [s EXCEPT !.flags = [nd \in DOMAIN s.flags |-> reset_frame_status(s.flags[nd])],
                        !.inbox = [nd \in DOMAIN s.inbox |-> <<>>]]
        s2 == [s1 EXCEPT !.flags = MarkActive(s1.flags, s1.msgs)]
        s3 == _start_messages_for_frame(s2, current_frame)
        s4 == process_transmissions(s3, "comparison", algorithm_mode, cls)
    IN ClearCompleted(s4, 1)

\* _verify_colors
_verify_colors(flags, msgs) ==
    [nd \in DOMAIN flags |->
        [flags[nd] EXCEPT
            !.source = @ /\ \E mid \in DOMAIN msgs :
                               /\ msgs[mid].is_active /\ ~msgs[mid].is_completed
                               /\ msgs[mid].source = nd,
            !.target = @ /\ \E mid \in DOMAIN msgs :
                               /\ msgs[mid].is_active /\ ~msgs[mid].is_completed
                               /\ msgs[mid].target = nd]]

execute_learning_frame(s, current_frame, algorithm_mode, cls) ==
    LET s1 == [s EXCEPT !.flags = [nd \in DOMAIN s.flags |->
                                      [reset_frame_status(s.flags[nd])
                                          EXCEPT !.source = FALSE, !.target = FALSE]],
                        !.inbox = [nd \in DOMAIN s.inbox |-> <<>>]]
        s2 == [s1 EXCEPT !.flags = MarkActive(s1.flags, s1.msgs)]
        s3 == _start_learning_messages_for_frame(s2, current_frame)
        s4 == process_transmissions(s3, "learning", algorithm_mode, cls)
        s5 == ClearCompleted(s4, 1)
    IN [s5 EXCEPT !.flags = _verify_colors(s5.flags, s5.msgs)]

\* reset_simulation: what it does to one message ...
ResetMessage(m) ==
    [m EXCEPT !.is_active = FALSE, !.is_completed = FALSE,
              !.completion_reason = "None", !.paths = <<>>]

\* variant: the seen sets are not cleared
reset_simulation_KeepSeen(s) ==
    [s EXCEPT !.msgs = [mid \in DOMAIN s.msgs |-> ResetMessage(s.msgs[mid])],
              !.flags = [nd \in DOMAIN s.flags |-> ClearFlags],
              !.pend = [nd \in DOMAIN s.pend |-> <<>>],
              !.inbox = [nd \in DOMAIN s.inbox |-> <<>>]]

\* ... and to the nodes (knowledge trees are kept)
reset_simulation(s) ==
    [s EXCEPT !.msgs = [mid \in DOMAIN s.msgs |-> ResetMessage(s.msgs[mid])],
              !.flags = [nd \in DOMAIN s.flags |-> ClearFlags],
              !.pend = [nd \in DOMAIN s.pend |-> <<>>],
              !.inbox = [nd \in DOMAIN s.inbox |-> <<>>],
              !.copies = [nd \in DOMAIN s.copies |-> {}],
              !.ids = [nd \in DOMAIN s.ids |-> {}]]

\* is_complete of either manager
is_complete(msgs, current_frame, frames) ==
    \/ current_frame >= frames
    \/ \A mid \in DOMAIN msgs : msgs[mid].is_completed

(***************************************************************************)
(* Statistics of the comparison phase (ComparisonPhaseManager.stats)       *)
(***************************************************************************)
\* the per-message record of generate_comparison_messages / reset_simulation
NewDetails ==
    [success |-> FALSE, final_path |-> <<>>, all_paths_discovered |-> <<>>,
     path_length |-> 0,
     total_transmissions_for_this_message |-> 0,
     total_receptions_for_this_message |-> 0,
     hops_when_target_reached |-> 0, frames_to_complete |-> 0]

\* the statistics after __init__: no per-frame array, no per-message record
InitialStats ==
    [total_collisions |-> 0,
     collisions_per_frame |-> <<>>,
     active_messages_per_frame |-> <<>>,
     total_transmissions_sent |-> 0,
     total_transmissions_received |-> 0,
     total_transmissions_attempted |-> 0,
     total_collisions_occurred |-> 0,
     transmissions_per_frame |-> <<>>,
     receptions_per_frame |-> <<>>,
     collisions_frame_events |-> <<>>,
     message_details |-> <<>>]

\* the statistics that generate_comparison_messages and reset_simulation set
\* up: arrays of total_frames zeros and one fresh record per message
NewStats(msgs, total_frames) ==
    [InitialStats EXCEPT
        !.collisions_per_frame = [i \in 1..total_frames |-> 0],
        !.active_messages_per_frame = [i \in 1..total_frames |-> 0],
        !.transmissions_per_frame = [i \in 1..total_frames |-> 0],
        !.receptions_per_frame = [i \in 1..total_frames |-> 0],
        !.collisions_frame_events = [i \in 1..total_frames |-> 0],
        !.message_details = [mid \in DOMAIN msgs |-> NewDetails]]

\* the number of items of seq whose component pos is mid
CountFor(seq, pos, mid) == Cardinality({i \in DOMAIN seq : seq[i][pos] = mid})

\* record_transmission_statistics: "current_frame_idx = self.current_frame - 1"
FrameIndex(current_frame) == current_frame - 1

\* record_transmission_statistics; Python index idx is position idx + 1
record_transmission_statistics(st, transmission_queue, successful_receives, collision_count, current_frame) ==
    LET current_frame_idx == FrameIndex(current_frame)
    IN IF current_frame_idx < 0
          \/ current_frame_idx >= Len(st.transmissions_per_frame)
       THEN st
       ELSE [st EXCEPT
               !.transmissions_per_frame[current_frame_idx + 1] =
                   Len(transmission_queue),
               !.receptions_per_frame[current_frame_idx + 1] =
                   Len(successful_receives),
               !.collisions_frame_events[current_frame_idx + 1] = collision_count,
               !.total_transmissions_attempted = @ + Len(transmission_queue),
               !.total_transmissions_sent = @ + Len(transmission_queue),
               !.total_transmissions_received = @ + Len(successful_receives),
               !.total_collisions_occurred = @ + collision_count,
               !.message_details = [mid \in DOMAIN st.message_details |->
                   [st.message_details[mid] EXCEPT
                       !.total_transmissions_for_this_message =
                           @ + CountFor(transmission_queue, 3, mid),
                       !.total_receptions_for_this_message =
                           @ + CountFor(successful_receives, 3, mid)]]]

\* _update_message_completion_stats
_update_message_completion_stats(st, m, mid, current_frame) ==
    IF mid \notin DOMAIN st.message_details THEN st
    ELSE LET d0 == [st.message_details[mid] EXCEPT
                       !.success = (get_status(m) = "SUCCESS"),
                       !.frames_to_complete = current_frame]
             d1 == IF m.paths # <<>>
                   THEN [d0 EXCEPT !.final_path = Last(m.paths),
                                   !.all_paths_discovered = m.paths,
                                   !.path_length = Len(Last(m.paths)) - 1]
                   ELSE d0
             d2 == IF m.target_received
                   THEN [d1 EXCEPT !.hops_when_target_reached = d1.path_length]
                   ELSE d1
         IN [st EXCEPT !.message_details[mid] = d2]

RECURSIVE CompletionStats(_, _, _, _)
CompletionStats(st, s, i, current_frame) ==
    IF i > Len(s.completed) THEN st
    ELSE CompletionStats(
             _update_message_completion_stats(st, s.msgs[s.completed[i]],
                                              s.completed[i], current_frame),
             s, i + 1, current_frame)

\* _update_frame_statistics (the counters of newly completed messages are
\* not modelled)
_update_frame_statistics(st, s, current_frame) ==
    LET active_count ==
            Cardinality({mid \in DOMAIN s.msgs : s.msgs[mid].is_active})
        collision_count ==
            Cardinality({nd \in DOMAIN s.flags : s.flags[nd].collision})
        st1 == IF current_frame <= Len(st.active_messages_per_frame)
                  /\ current_frame > 0
               THEN [st EXCEPT !.active_messages_per_frame[current_frame] =
                                   active_count]
               ELSE st
    IN IF current_frame <= Len(st1.collisions_per_frame) /\ current_frame > 0
       THEN [st1 EXCEPT !.collisions_per_frame[current_frame] = collision_count,
                        !.total_collisions = @ + collision_count]
       ELSE st1

\* the statistics after a comparison tick whose result is s: the call of
\* record_transmission_statistics in process_transmissions, the completion
\* records and the frame statistics of execute_comparison_frame, all before
\* "self.current_frame += 1"
TickStats(st, s, current_frame) ==
    _update_frame_statistics(
        CompletionStats(
            record_transmission_statistics(st, s.queue, s.receives,
                                           Cardinality(s.collisions),
                                           current_frame),
            s, 1, current_frame),
        s, current_frame)

(***************************************************************************)
(* Workloads                                                               *)
(***************************************************************************)
Pairs(n) == {p \in (0..(n-1)) \X (0..(n-1)) : p[1] # p[2]}

\* hop limits of the workloads: the constructor's value and a shorter one
HopLimits == {2, DefaultHopLimit}

\* generate_comparison_messages: random.randint(1, total_frames - 4)
StartFrames == 1..(TotalFrames - StartFrameMargin)

One(m0) == (0 :> m0)

Two(m0, m1) == (0 :> m0) @@ (1 :> m1)

ComparisonConfigs ==
    {[topo |-> Line4, msgs |-> One(NewMessage(p[1], p[2], hl, 1))] :
        p \in Pairs(4), hl \in HopLimits}
    \cup {[topo |-> Triangle, msgs |-> One(NewMessage(p[1], p[2], hl, 1))] :
        p \in Pairs(3), hl \in HopLimits}
    \cup {[topo |-> Fork6, msgs |-> One(NewMessage(0, tg, DefaultHopLimit, sf))] :
        tg \in 1..5, sf \in {1, TotalFrames - StartFrameMargin}}
    \cup {[topo |-> Ring5, msgs |-> One(NewMessage(0, tg, DefaultHopLimit, 1))] :
        tg \in 1..4}
    \cup {[topo |-> Chain6, msgs |-> One(NewMessage(0, tg, DefaultHopLimit - 1, 1))] :
        tg \in {4, 5}}
    \cup {[topo |-> Star3,
           msgs |-> Two(NewMessage(1, t0, DefaultHopLimit, 1),
                        NewMessage(p[1], p[2], DefaultHopLimit, sf))] :
        t0 \in {0, 2}, p \in Pairs(3), sf \in {1, 2}}
    \cup {[topo |-> Ring5,
           msgs |-> Two(NewMessage(0, 2, DefaultHopLimit, 1),
                        NewMessage(0, tg, DefaultHopLimit, sf))] :
        tg \in {1, 3}, sf \in StartFrames \ {1}}
    \cup {[topo |-> Line4,
           msgs |-> Two(NewMessage(0, 3, 2, 1),
                        NewMessage(3, tg, DefaultHopLimit, 1))] :
        tg \in {0, 1}}

\* generate_learning_messages: ids 0, 1, ..., start frames 1, 1 + 4, ...,
\* hop limit 4
LearningConfigs ==
    {[topo |-> Line4, msgs |-> One(NewMessage(p[1], p[2], DefaultHopLimit, 1))] :
        p \in Pairs(4)}
    \cup {[topo |-> Triangle,
           msgs |-> Two(NewMessage(p[1], p[2], DefaultHopLimit, 1),
                        NewMessage(q[1], q[2], DefaultHopLimit, 1 + message_interval))] :
        p \in Pairs(3), q \in {<<0, 1>>, <<2, 0>>}}

\* generate_learning_messages: learning_frames = current_frame - 1
learning_frames(msgs) == message_interval * Cardinality(DOMAIN msgs)

(***************************************************************************)
(* State                                                                   *)
(***************************************************************************)
VARIABLES
    network,              \* [n, neighbors]: the nodes and their neighbor sets
    messages,             \* the phase manager's messages dictionary
    pending_messages,     \* per node
    received_messages,    \* per node
    received_message_ids, \* per node
    seen_message_copies,  \* per node
    status_flags,         \* per node
    knowledge_tree,       \* per node
    current_frame,        \* the phase manager's frame counter
    algorithm_mode,       \* MessageProcessor.algorithm_mode
    message_type,         \* "learning" or "comparison": which manager runs
    message_class,        \* which Message class the managers import
    stats,                \* ComparisonPhaseManager.stats
    transmission_queue,   \* results of the last process_transmissions
    collision_nodes,
    successful_receives,
    completed_messages,
    expired_messages,
    decisions,            \* routing decisions taken in the last tick
    snapshots,            \* per-tick snapshots emitted in the current run
    prev_snapshots,       \* ... and in the run before the last reset
    run_modes,            \* algorithm modes used by the ticks of this run
    prev_run_modes,
    resets,               \* number of reset_simulation calls so far
    mode_switches,        \* number of set_algorithm_mode calls so far
    subtree_call          \* a call of Node._is_in_subtree executed step by step

vars == <<network, messages, pending_messages, received_messages,
          received_message_ids, seen_message_copies, status_flags,
          knowledge_tree, current_frame, algorithm_mode, message_type,
          message_class, transmission_queue, collision_nodes,
          successful_receives, completed_messages, expired_messages,
          decisions, snapshots, prev_snapshots, run_modes, prev_run_modes,
          resets, mode_switches, stats, subtree_call>>

\* no call of _is_in_subtree is being stepped through
NoCall ==
    [pc |-> "idle", self |-> 0, node |-> 0, subtree_root |-> 0,
     nodes_to_check |-> <<>>, visited |-> {}, result |-> FALSE,
     iterations |-> 0]

Nodes == 0..(network.n - 1)

\* the record the operators work on
State ==
    [n |-> network.n, nbrs |-> network.neighbors,
     msgs |-> messages, pend |-> pending_messages, inbox |-> received_messages,
     ids |-> received_message_ids, copies |-> seen_message_copies,
     flags |-> status_flags, tree |-> knowledge_tree,
     expired |-> <<>>, queue |-> <<>>, sending |-> <<>>, collisions |-> {},
     receives |-> <<>>, completed |-> <<>>, decisions |-> <<>>]

\* the per-tick snapshot: transmissions, collision victims, message states
Snapshot(s) ==
    [transmissions |-> [i \in DOMAIN s.queue |->
                           <<s.queue[i][1], s.queue[i][2], s.queue[i][3]>>],
     collisions |-> s.collisions,
     messages |-> [mid \in DOMAIN s.msgs |->
                      <<get_state(s.msgs[mid]), s.msgs[mid].status>>]]

Init ==
    /\ message_type \in {"learning", "comparison"}
    /\ message_class \in MessageClasses
    /\ \E c \in IF message_type = "learning" THEN LearningConfigs
                ELSE ComparisonConfigs :
          /\ network = c.topo
          /\ messages = c.msgs
    /\ pending_messages = [nd \in Nodes |-> <<>>]
    /\ received_messages = [nd \in Nodes |-> <<>>]
    /\ received_message_ids = [nd \in Nodes |-> {}]
    /\ seen_message_copies = [nd \in Nodes |-> {}]
    /\ status_flags = [nd \in Nodes |-> ClearFlags]
    /\ knowledge_tree = [nd \in Nodes |-> [d \in Nodes |-> <<>>]]
    /\ current_frame = 0
    /\ algorithm_mode = "flooding"
    /\ transmission_queue = <<>>
    /\ collision_nodes = {}
    /\ successful_receives = <<>>
    /\ completed_messages = <<>>
    /\ expired_messages = <<>>
    /\ decisions = <<>>
    /\ snapshots = <<>>
    /\ prev_snapshots = <<>>
    /\ run_modes = {}
    /\ prev_run_modes = {}
    /\ resets = 0
    /\ mode_switches = 0
    /\ stats = IF message_type = "comparison"
               THEN NewStats(messages, TotalFrames) ELSE InitialStats
    /\ subtree_call = NoCall

\* the assignments shared by the two frame actions
Publish(s) ==
    /\ messages' = s.msgs
    /\ pending_messages' = s.pend
    /\ received_messages' = s.inbox
    /\ received_message_ids' = s.ids
    /\ seen_message_copies' = s.copies
    /\ status_flags' = s.flags
    /\ knowledge_tree' = s.tree
    /\ transmission_queue' = s.queue
    /\ collision_nodes' = s.collisions
    /\ successful_receives' = s.receives
    /\ completed_messages' = s.completed
    /\ expired_messages' = s.expired
    /\ decisions' = s.decisions
    /\ snapshots' = Append(snapshots, Snapshot(s))
    /\ current_frame' = current_frame + 1

ExecuteComparisonFrame ==
    /\ message_type = "comparison"
    /\ ~is_complete(messages, current_frame, TotalFrames)
    /\ Publish(execute_comparison_frame(State, current_frame, algorithm_mode,
                                        message_class))
    /\ stats' = TickStats(stats,
                          execute_comparison_frame(State, current_frame,
                                                   algorithm_mode, message_class),
                          current_frame)
    /\ UNCHANGED subtree_call
    /\ run_modes' = run_modes \cup {algorithm_mode}
    /\ UNCHANGED <<network, algorithm_mode, message_type, message_class,
                   prev_snapshots, prev_run_modes, resets, mode_switches>>

ExecuteLearningFrame ==
    /\ message_type = "learning"
    /\ ~is_complete(messages, current_frame, learning_frames(messages))
    /\ Publish(execute_learning_frame(State, current_frame, algorithm_mode,
                                      message_class))
    /\ run_modes' = run_modes \cup {"flooding"}
    /\ UNCHANGED <<network, algorithm_mode, message_type, message_class,
                   prev_snapshots, prev_run_modes, resets, mode_switches, stats,
                   subtree_call>>

ResetSimulation ==
    /\ message_type = "comparison"
    /\ resets < MaxResets
    /\ LET s == reset_simulation(State)
       IN /\ messages' = s.msgs
          /\ pending_messages' = s.pend
          /\ received_messages' = s.inbox
          /\ received_message_ids' = s.ids
          /\ seen_message_copies' = s.copies
          /\ status_flags' = s.flags
    /\ current_frame' = 0
    /\ prev_snapshots' = snapshots
    /\ snapshots' = <<>>
    /\ prev_run_modes' = run_modes
    /\ run_modes' = {}
    /\ resets' = resets + 1
    /\ stats' = NewStats(messages, TotalFrames)
    /\ UNCHANGED subtree_call
    /\ UNCHANGED <<network, knowledge_tree, algorithm_mode, message_type,
                   message_class, transmission_queue, collision_nodes,
                   successful_receives, completed_messages, expired_messages,
                   decisions, mode_switches>>

SetAlgorithmMode ==
    /\ mode_switches < MaxModeSwitches
    /\ \E mode \in {"flooding", "tree"} :
          /\ mode # algorithm_mode
          /\ algorithm_mode' = mode
    /\ mode_switches' = mode_switches + 1
    /\ UNCHANGED <<network, messages, pending_messages, received_messages,
                   received_message_ids, seen_message_copies, status_flags,
                   knowledge_tree, current_frame, message_type, message_class,
                   transmission_queue, collision_nodes, successful_receives,
                   completed_messages, expired_messages, decisions, snapshots,
                   prev_snapshots, run_modes, prev_run_modes, resets, stats,
                   subtree_call>>

Next ==
    \/ ExecuteComparisonFrame
    \/ ExecuteLearningFrame
    \/ ResetSimulation
    \/ SetAlgorithmMode

Spec == Init /\ [][Next]_vars

(***************************************************************************)
(* Properties                                                              *)
(***************************************************************************)
\* a tick has run in the current run, so the results of the last tick
\* belong to the current run
TickDone == current_frame > 0

RecordCountTo(r) ==
    Cardinality({i \in DOMAIN transmission_queue : transmission_queue[i][2] = r})

AcceptedBy(r) ==
    {i \in DOMAIN successful_receives : successful_receives[i][2] = r}

\* C1: after every tick, a node that was the receiver of two or more
\* transmission records of the tick has its collision flag set, accepted
\* none of the records and has an empty inbox.
C1_CollisionVictims ==
    TickDone =>
        \A r \in Nodes :
            RecordCountTo(r) >= 2 =>
                /\ status_flags[r].collision
                /\ AcceptedBy(r) = {}
                /\ received_messages[r] = <<>>

\* C1 witness: a tick in which one sender carried two messages to the
\* same receiver
C1_Witness ==
    /\ TickDone
    /\ \E i, j \in DOMAIN transmission_queue :
          /\ i # j
          /\ transmission_queue[i][1] = transmission_queue[j][1]
          /\ transmission_queue[i][2] = transmission_queue[j][2]
          /\ transmission_queue[i][3] # transmission_queue[j][3]

\* C2: a tick never removes an id from a node's seen set, and a copy of a
\* message offered to a node that has already seen the message is not
\* accepted and adds no path to the message; a node accepts at most one
\* copy of a message in a tick.
C2_SeenOnce ==
    [][current_frame' = current_frame + 1 =>
        /\ \A nd \in Nodes :
              received_message_ids[nd] \subseteq received_message_ids'[nd]
        /\ \A i \in DOMAIN transmission_queue' :
              LET rec == transmission_queue'[i]
              IN rec[3] \in received_message_ids[rec[2]] =>
                   /\ <<rec[1], rec[2], rec[3]>> \notin Range(successful_receives')
                   /\ NewPath(rec[4], rec[2]) \in Range(messages'[rec[3]].paths)
                        => NewPath(rec[4], rec[2]) \in Range(messages[rec[3]].paths)
        /\ \A i, j \in DOMAIN successful_receives' :
              (/\ successful_receives'[i][2] = successful_receives'[j][2]
               /\ successful_receives'[i][3] = successful_receives'[j][3]) => i = j
    ]_vars

\* C2 witness: a copy was offered to a node without a collision and was
\* rejected as a duplicate
C2_Witness ==
    /\ TickDone
    /\ \E i \in DOMAIN transmission_queue :
          LET rec == transmission_queue[i]
          IN /\ rec[2] \notin collision_nodes
             /\ <<rec[1], rec[2], rec[3]>> \notin Range(successful_receives)
             /\ rec[3] \in received_message_ids[rec[2]]

\* C3: no transmission record has as its sender the target of the message
\* it carries, in either phase and under either policy.
C3_TargetNeverSends ==
    \A i \in DOMAIN transmission_queue :
        transmission_queue[i][1] # messages[transmission_queue[i][3]].target

\* C3 witness: the target accepted its message in an earlier tick, held a
\* copy in the last tick, decided on it and emitted nothing
C3_Witness ==
    /\ TickDone
    /\ \E i \in DOMAIN decisions :
          /\ decisions[i].node = messages[decisions[i].mid].target
          /\ messages[decisions[i].mid].target_received
          /\ decisions[i].receivers = <<>>

\* C4: every path stored on a message begins at the message's source, has
\* consecutive nodes adjacent in the topology and at most hop_limit + 1
\* nodes.
C4_PathsWellFormed ==
    \A mid \in DOMAIN messages :
        \A k \in DOMAIN messages[mid].paths :
            LET path == messages[mid].paths[k]
            IN /\ path # <<>>
               /\ path[1] = messages[mid].source
               /\ \A j \in 1..(Len(path) - 1) :
                      path[j + 1] \in network.neighbors[path[j]]
               /\ Len(path) <= messages[mid].hop_limit + 1

\* C4 witness: a stored path that uses the whole hop budget
C4_Witness ==
    \E mid \in DOMAIN messages :
        \E k \in DOMAIN messages[mid].paths :
            Len(messages[mid].paths[k]) = messages[mid].hop_limit + 1

\* C5: at the end of every tick every completed message has status
\* SUCCESS if and only if its target_received flag is true.
C5_StatusIffTargetReceived ==
    \A mid \in DOMAIN messages :
        messages[mid].is_completed =>
            (messages[mid].status = "SUCCESS" <=> messages[mid].target_received)

\* C6: a message that is waiting or active never has status SUCCESS, and
\* the status of a message that stays completed does not change.
C6_StatusOnlyAtCompletion ==
    [][\A mid \in DOMAIN messages :
          /\ ~messages'[mid].is_completed => messages'[mid].status # "SUCCESS"
          /\ (messages[mid].is_completed /\ messages'[mid].is_completed)
                => messages'[mid].status = messages[mid].status
    ]_vars

\* the parent links of a knowledge tree that leave the nodes of S, never
\* followed out of self
ParentsOf(tree_n, self, S) ==
    UNION {{tree_n[v][i].parent : i \in DOMAIN tree_n[v]} : v \in S \ {self}}

\* everything reachable from S along chains of parent links
RECURSIVE ChainClosure(_, _, _)
ChainClosure(tree_n, self, S) ==
    LET T == S \cup ParentsOf(tree_n, self, S)
    IN IF T = S THEN S ELSE ChainClosure(tree_n, self, T)

\* x belongs to the subtree of the direct child c
InSubtreeOf(tree_n, self, x, c) ==
    \/ x = c
    \/ /\ tree_n[x] # <<>>
       /\ c \in ChainClosure(tree_n, self, {x})

\* the tree places source and target in the subtree of one direct child
PlacesInOneSubtree(tree_n, self, source, target) ==
    \E c \in DOMAIN tree_n :
        /\ \E i \in DOMAIN tree_n[c] : tree_n[c][i].parent = self
        /\ InSubtreeOf(tree_n, self, source, c)
        /\ InSubtreeOf(tree_n, self, target, c)

\* C7: in a comparison tick under the tree-aware policy, a non-target node
\* whose knowledge tree (as it is when the tick starts) places source and
\* target of a message in the subtree of one direct child emits no
\* transmission record for that message.
C7_TreeSuppression ==
    [][(/\ current_frame' = current_frame + 1
        /\ message_type = "comparison"
        /\ algorithm_mode = "tree") =>
        \A i \in DOMAIN decisions' :
            LET d == decisions'[i]
                m == messages[d.mid]
            IN (/\ d.node # m.target
                /\ PlacesInOneSubtree(knowledge_tree[d.node], d.node,
                                      m.source, m.target))
               => /\ d.receivers = <<>>
                  /\ \A j \in DOMAIN transmission_queue' :
                         ~(/\ transmission_queue'[j][1] = d.node
                           /\ transmission_queue'[j][3] = d.mid)
    ]_vars

\* C7 witness: a non-target node held a copy in the last tick, its tree
\* places both endpoints in one subtree, and it emitted nothing
C7_Witness ==
    /\ TickDone
    /\ message_type = "comparison"
    /\ algorithm_mode = "tree"
    /\ \E i \in DOMAIN decisions :
          LET d == decisions[i]
              m == messages[d.mid]
          IN /\ d.node # m.target
             /\ PlacesInOneSubtree(knowledge_tree[d.node], d.node, m.source, m.target)
             /\ d.receivers = <<>>

\* the shorter of two sequences' lengths
MinLen(a, b) == IF Len(a) <= Len(b) THEN Len(a) ELSE Len(b)

\* C8: two comparison runs of the same workload under one policy,
\* separated by reset_simulation, emit the same snapshot in every tick.
C8_RunsIdentical ==
    (/\ resets > 0
     /\ Cardinality(run_modes \cup prev_run_modes) <= 1) =>
        \A i \in 1..MinLen(snapshots, prev_snapshots) :
            snapshots[i] = prev_snapshots[i]

\* scenario S1: line 0-1-2-3, one message 0 -> 3, hop_limit 4, start 1
IsS1 ==
    /\ message_type = "comparison"
    /\ network = Line4
    /\ DOMAIN messages = {0}
    /\ messages[0].source = 0
    /\ messages[0].target = 3
    /\ messages[0].hop_limit = 4
    /\ messages[0].start_frame = 1

\* get_detailed_statistics: final_path
FinalPath(m) == IF m.paths # <<>> THEN Last(m.paths) ELSE <<>>

\* C9: in S1 under flood the message is not completed at the end of ticks
\* 1 to 4 and is completed at the end of tick 5 with status SUCCESS,
\* target_received true and final path [0,1,2,3].
C9_S1Completion ==
    (IsS1 /\ run_modes \subseteq {"flooding"}) =>
        /\ current_frame \in 1..4 => ~messages[0].is_completed
        /\ current_frame = 5 =>
              /\ messages[0].is_completed
              /\ messages[0].status = "SUCCESS"
              /\ messages[0].target_received
              /\ FinalPath(messages[0]) = <<0, 1, 2, 3>>

\* C9 witness: S1 at the end of tick 5 of a flood run
C9_Witness ==
    /\ IsS1
    /\ run_modes = {"flooding"}
    /\ current_frame = 5
    /\ messages[0].is_completed

RecordsOf(mid) ==
    {<<transmission_queue[i][1], transmission_queue[i][2]>> :
        i \in {j \in DOMAIN transmission_queue : transmission_queue[j][3] = mid}}

\* C10 as stated: the tick that admits a message emits no record for it
\* and leaves the entry ([source], hop_limit) in the source's outbox; in S1
\* the transmissions 0->1, 1->2, 2->3 are emitted in ticks 2, 3 and 4.
C10_FirstSentNextTick ==
    /\ \A mid \in DOMAIN messages :
          messages[mid].start_frame = current_frame =>
              /\ RecordsOf(mid) = {}
              /\ \E i \in DOMAIN pending_messages[messages[mid].source] :
                     /\ pending_messages[messages[mid].source][i][1] = mid
                     /\ pending_messages[messages[mid].source][i][2]
                            = <<messages[mid].source>>
    /\ IsS1 =>
          /\ current_frame = 2 => <<0, 1>> \in RecordsOf(0)
          /\ current_frame = 3 => <<1, 2>> \in RecordsOf(0)
          /\ current_frame = 4 => <<2, 3>> \in RecordsOf(0)

\* C10 amended: the tick that admits a message emits a record for it from
\* its source to every neighbor of the source, with path [source] and the
\* full hop budget, and leaves no entry for it in the source's outbox; in
\* S1 the transmissions 0->1, 1->2, 2->3 are emitted in ticks 1, 2 and 3.
C10_SentInAdmissionTick ==
    /\ \A mid \in DOMAIN messages :
          messages[mid].start_frame = current_frame =>
              LET src == messages[mid].source
              IN /\ \A nb \in network.neighbors[src] :
                        <<src, nb, mid, <<src>>, messages[mid].hop_limit>>
                            \in Range(transmission_queue)
                 /\ \A i \in DOMAIN pending_messages[src] :
                        pending_messages[src][i][1] # mid
    /\ IsS1 =>
          /\ current_frame = 1 => RecordsOf(0) = {<<0, 1>>}
          /\ current_frame = 2 => <<1, 2>> \in RecordsOf(0)
          /\ current_frame = 3 => <<2, 3>> \in RecordsOf(0)
          /\ current_frame >= 4 => RecordsOf(0) = {}

\* C10 witness: S1 at the end of tick 1, the record 0->1 emitted
C10_Witness ==
    /\ IsS1
    /\ current_frame = 1
    /\ <<0, 1, 0, <<0>>, 4>> \in Range(transmission_queue)

\* the nodes within k hops of the nodes of S in the topology
RECURSIVE Ball(_, _, _)
Ball(nbrs, S, k) ==
    IF k = 0 THEN S
    ELSE Ball(nbrs, S \cup UNION {nbrs[v] : v \in S}, k - 1)

\* the target of m is more than hop_limit hops from its source
TargetOutOfRange(m) ==
    m.target \notin Ball(network.neighbors, {m.source}, m.hop_limit)

\* the current run has ended
RunOver ==
    is_complete(messages, current_frame,
                IF message_type = "learning" THEN learning_frames(messages)
                ELSE TotalFrames)

\* C11: under flood, a message whose target is more than hop_limit hops
\* from its source never has target_received set, keeps status FAILED, is
\* completed when the run ends, and no node more than hop_limit hops from
\* the source accepts a copy of it.
C11_OutOfRangeFails ==
    run_modes \subseteq {"flooding"} =>
        \A mid \in DOMAIN messages :
            TargetOutOfRange(messages[mid]) =>
                /\ ~messages[mid].target_received
                /\ messages[mid].status = "FAILED"
                /\ (TickDone /\ RunOver) => messages[mid].is_completed
                /\ \A i \in DOMAIN successful_receives :
                       successful_receives[i][3] = mid =>
                           successful_receives[i][2] \in
                               Ball(network.neighbors, {messages[mid].source},
                                    messages[mid].hop_limit)
                /\ \A nd \in Nodes :
                       mid \in received_message_ids[nd] =>
                           nd \in Ball(network.neighbors, {messages[mid].source},
                                       messages[mid].hop_limit)

\* C11 witness: S5 after the flood run: node 3 accepted a copy, the
\* message is completed as FAILED
C11_Witness ==
    /\ network = Chain6
    /\ run_modes = {"flooding"}
    /\ messages[0].target = 5
    /\ messages[0].is_completed
    /\ messages[0].status = "FAILED"
    /\ 0 \in received_message_ids[3]

\* a first comparison run of a single-message workload: the knowledge
\* trees were empty when the run started
SingleMessageFirstRun ==
    /\ message_type = "comparison"
    /\ resets = 0
    /\ Cardinality(DOMAIN messages) = 1

\* C12: in a comparison run of a single-message workload that started
\* with empty knowledge trees, every tick has the same outcome under the
\* tree-aware policy as under flood (same records, acceptances, message
\* states and node states), so the two runs coincide tick by tick; S6
\* has the records and the completion of S1.
C12_TreeFallbackEqualsFlood ==
    /\ (SingleMessageFirstRun
         /\ ~is_complete(messages, current_frame, TotalFrames)) =>
            execute_comparison_frame(State, current_frame, "tree", message_class)
              = execute_comparison_frame(State, current_frame, "flooding",
                                         message_class)
    /\ (IsS1 /\ resets = 0 /\ run_modes = {"tree"}) =>
          /\ current_frame = 1 => RecordsOf(0) = {<<0, 1>>}
          /\ current_frame = 2 => RecordsOf(0) = {<<1, 0>>, <<1, 2>>}
          /\ current_frame = 3 => RecordsOf(0) = {<<2, 1>>, <<2, 3>>}
          /\ current_frame >= 4 => RecordsOf(0) = {}
          /\ current_frame \in 1..4 => ~messages[0].is_completed
          /\ current_frame = 5 =>
                /\ messages[0].is_completed
                /\ messages[0].status = "SUCCESS"
                /\ FinalPath(messages[0]) = <<0, 1, 2, 3>>

\* C12 witness: S6 after tick 3 of a tree-aware run: node 2 knew the
\* source from its tree and still sent to both neighbors
C12_Witness ==
    /\ IsS1
    /\ resets = 0
    /\ run_modes = {"tree"}
    /\ current_frame = 3
    /\ knowledge_tree[2][0] # <<>>
    /\ RecordsOf(0) = {<<2, 1>>, <<2, 3>>}

\* the state after the first k nodes of the loop of
\* _process_received_messages
RECURSIVE ReceivedPrefix(_, _, _)
ReceivedPrefix(s, k, cls) ==
    IF k = 0 THEN s
    ELSE ReceivedNode(ReceivedPrefix(s, k - 1, cls), k - 1, cls)

\* execute_comparison_frame / execute_learning_frame up to the call of
\* process_transmissions
BeforeTransmissions(s, frame, mtype) ==
    LET s1 == [s EXCEPT !.flags = [nd \in DOMAIN s.flags |->
                                      IF mtype = "learning"
                                      THEN [reset_frame_status(s.flags[nd])
                                               EXCEPT !.source = FALSE, !.target = FALSE]
                                      ELSE reset_frame_status(s.flags[nd])],
                        !.inbox = [nd \in DOMAIN s.inbox |-> <<>>]]
        s2 == [s1 EXCEPT !.flags = MarkActive(s1.flags, s1.msgs)]
    IN StartLoop(s2, MsgSeq(s2), frame, mtype)

\* the messages dictionary after each step of a tick: admission, expiry
\* and stall check, collection, and each node of reception processing
TickSteps(s, frame, mtype, mode, cls) ==
    LET a  == BeforeTransmissions(s, frame, mtype)
        s0 == [a EXCEPT !.expired = <<>>, !.queue = <<>>, !.sending = <<>>,
                        !.collisions = {}, !.receives = <<>>, !.completed = <<>>,
                        !.decisions = <<>>]
        s1 == _check_expired_messages(s0, cls)
        s2 == _collect_transmissions(s1, mtype, mode, cls)
        s4 == _process_receptions(_detect_collisions(s2))
    IN <<s.msgs, a.msgs, s1.msgs, s2.msgs>>
       \o [k \in 1..(s.n + 1) |-> ReceivedPrefix(s4, k - 1, cls).msgs]

\* the fields that completion fixes
CompletionFields(m) ==
    <<m.is_completed, m.is_active, m.status, m.completion_reason>>

\* C13: once a step of a tick has completed a message, no later step of
\* that tick and no later tick of the run changes its is_completed,
\* is_active, status or completion reason (so it is not admitted again).
C13_CompletedOnce ==
    [][current_frame' = current_frame + 1 =>
        LET steps == TickSteps(State, current_frame, message_type,
                               algorithm_mode, message_class)
        IN \A mid \in DOMAIN messages :
               \A i, j \in DOMAIN steps :
                   (i < j /\ steps[i][mid].is_completed) =>
                       CompletionFields(steps[j][mid])
                           = CompletionFields(steps[i][mid])
    ]_vars

\* the moves of a message's state from one step of a tick to the next:
\* none, waiting -> active at admission (step 1) in the tick whose
\* ordinal is the start frame, or active -> completed
StateMoveAllowed(m, n, step, tick) ==
    \/ get_state(m) = get_state(n)
    \/ /\ get_state(m) = "WAITING"
       /\ get_state(n) = "ACTIVE"
       /\ step = 1
       /\ m.start_frame = tick
    \/ /\ get_state(m) = "ACTIVE"
       /\ get_state(n) = "COMPLETED"

\* C14: no message is ever both active and completed, and through the
\* steps of every tick a message's state only moves waiting -> active ->
\* completed, becoming active only at the admission step of the tick
\* whose ordinal equals its start_frame.
C14_StateMachine ==
    [][/\ \A mid \in DOMAIN messages :
            ~(messages'[mid].is_active /\ messages'[mid].is_completed)
       /\ current_frame' = current_frame + 1 =>
            LET steps == TickSteps(State, current_frame, message_type,
                                   algorithm_mode, message_class)
            IN \A mid \in DOMAIN messages :
                   \A i \in 1..(Len(steps) - 1) :
                       /\ ~(steps[i + 1][mid].is_active
                             /\ steps[i + 1][mid].is_completed)
                       /\ StateMoveAllowed(steps[i][mid], steps[i + 1][mid], i,
                                           current_frame + 1)
    ]_vars

\* C14 witness: a message with a later start frame became active in the
\* last tick while another message was already completed
C14_Witness ==
    /\ TickDone
    /\ \E mid, o \in DOMAIN messages :
          /\ messages[mid].start_frame > 1
          /\ messages[mid].start_frame = current_frame
          /\ get_state(messages[mid]) = "ACTIVE"
          /\ get_state(messages[o]) = "COMPLETED"

\* C15: reset_simulation leaves every message waiting with
\* target_received false, and in a run that follows a reset a completed
\* message has status SUCCESS only if its target accepted a copy of it in
\* that run.
C15_ReplayStartsClean ==
    [][/\ resets' = resets + 1 =>
            \A mid \in DOMAIN messages :
                /\ get_state(messages'[mid]) = "WAITING"
                /\ ~messages'[mid].target_received
       /\ resets' > 0 =>
            \A mid \in DOMAIN messages :
                (/\ messages'[mid].is_completed
                 /\ messages'[mid].status = "SUCCESS")
                => mid \in received_message_ids'[messages'[mid].target]
    ]_vars

\* the fields of a message that make up its schedule
Schedule(m) == <<m.source, m.target, m.hop_limit, m.start_frame>>

\* C16: reset_simulation empties every node's outbox, inbox and both
\* seen sets, clears the five status flags and sets the frame counter to
\* 0; it leaves the neighbor sets, the knowledge trees and every
\* message's id, source, target, hop_limit and start_frame unchanged.
C16_ResetEffect ==
    [][resets' = resets + 1 =>
        /\ \A nd \in Nodes :
              /\ pending_messages'[nd] = <<>>
              /\ received_messages'[nd] = <<>>
              /\ received_message_ids'[nd] = {}
              /\ seen_message_copies'[nd] = {}
              /\ status_flags'[nd] = ClearFlags
        /\ current_frame' = 0
        /\ network' = network
        /\ knowledge_tree' = knowledge_tree
        /\ DOMAIN messages' = DOMAIN messages
        /\ \A mid \in DOMAIN messages :
              Schedule(messages'[mid]) = Schedule(messages[mid])
    ]_vars

\* C16 witness: S1 reset after its second tick, when node 2 held a copy
\* in its outbox and had learned two tree entries
C16_Witness ==
    /\ IsS1
    /\ resets = 1
    /\ current_frame = 0
    /\ Len(prev_snapshots) = 2
    /\ knowledge_tree[2][0] # <<>>
    /\ pending_messages[2] = <<>>
    /\ received_message_ids[2] = {}

\* C17: a node's own id is never a key of its knowledge tree, every
\* entry with distance 1 has the node itself as parent, and every entry
\* with distance 2 or more has a parent other than the node that is a
\* neighbor of the entry's destination.
C17_TreeEntriesWellFormed ==
    \A nd \in Nodes :
        /\ knowledge_tree[nd][nd] = <<>>
        /\ \A d \in Nodes :
              \A k \in DOMAIN knowledge_tree[nd][d] :
                  LET e == knowledge_tree[nd][d][k]
                  IN /\ e.distance >= 1
                     /\ e.distance = 1 => e.parent = nd
                     /\ e.distance >= 2 =>
                            /\ e.parent # nd
                            /\ e.parent \in network.neighbors[d]

\* C17 witness: a node holds an entry at distance 3 and an entry at
\* distance 1
C17_Witness ==
    \E nd, d, c \in Nodes :
        /\ \E k \in DOMAIN knowledge_tree[nd][d] :
              knowledge_tree[nd][d][k].distance = 3
        /\ \E k \in DOMAIN knowledge_tree[nd][c] :
              knowledge_tree[nd][c][k].distance = 1

\* a is an initial part of b
IsPrefix(a, b) ==
    /\ Len(a) <= Len(b)
    /\ \A i \in DOMAIN a : a[i] = b[i]

\* C18: no tick of either phase and no reset_simulation removes, reorders
\* or modifies a knowledge-tree entry: for every node and destination the
\* list of entries only grows at its end.
C18_TreeAppendOnly ==
    [][\A nd \in Nodes :
          \A d \in Nodes :
              IsPrefix(knowledge_tree[nd][d], knowledge_tree'[nd][d])
    ]_vars

\* C18 witness: with a single message, in the run after a reset a node
\* appended a second entry for a destination it already knew
C18_Witness ==
    /\ resets = 1
    /\ Cardinality(DOMAIN messages) = 1
    /\ TickDone
    /\ \E nd, d \in Nodes : Len(knowledge_tree[nd][d]) >= 2

\* the entries for message mid in a node's outbox
EntriesFor(pend_n, mid) == SelectSeq(pend_n, LAMBDA item : item[1] = mid)

\* the target of message mid accepted a copy of it in the last tick
TargetAccepted(receives, msgs, mid) ==
    \E i \in DOMAIN receives :
        /\ receives[i][3] = mid
        /\ receives[i][2] = msgs[mid].target

\* C19 as stated: a target that accepts a copy gets target_received set,
\* and at the end of every tick the target's outbox holds no entry for a
\* message addressed to it.
C19_TargetOutboxEmpty ==
    \A mid \in DOMAIN messages :
        /\ (TickDone /\ TargetAccepted(successful_receives, messages, mid))
              => messages[mid].target_received
        /\ EntriesFor(pending_messages[messages[mid].target], mid) = <<>>

\* C19 amended: a target that accepts a copy gets target_received set
\* and, unless the message is completed in that tick, queues the copy in
\* its outbox with the budget that is left, like any other node; the next
\* tick removes the entry and emits no record for it.
C19_TargetQueuesNeverSends ==
    [][current_frame' = current_frame + 1 =>
        \A mid \in DOMAIN messages :
            LET tg == messages[mid].target
            IN /\ TargetAccepted(successful_receives', messages, mid) =>
                    /\ messages'[mid].target_received
                    /\ ~messages'[mid].is_completed =>
                          \E i \in DOMAIN pending_messages'[tg] :
                              LET item == pending_messages'[tg][i]
                              IN /\ item[1] = mid
                                 /\ Last(item[2]) = tg
                                 /\ item[3] = messages[mid].hop_limit
                                                - (Len(item[2]) - 1)
                                 /\ item[3] > 0
               /\ EntriesFor(pending_messages[tg], mid) # <<>> =>
                    /\ \A j \in DOMAIN transmission_queue' :
                           ~(/\ transmission_queue'[j][1] = tg
                             /\ transmission_queue'[j][3] = mid)
                    /\ EntriesFor(pending_messages'[tg], mid) = <<>>
    ]_vars

\* C19 witness: S1 at the end of tick 3: node 3 accepted the copy and
\* holds it in its outbox with budget 1
C19_Witness ==
    /\ IsS1
    /\ current_frame = 3
    /\ messages[0].target_received
    /\ pending_messages[3] = <<<<0, <<0, 1, 2, 3>>, 1>>>>

\* the node from which the holder of a copy with this path received it
Predecessor(path) == IF Len(path) >= 2 THEN {path[Len(path) - 1]} ELSE {}

\* C20: in a flood run and in the learning phase, a non-target node that
\* holds a copy sends it to each of its neighbors except the immediate
\* predecessor on the copy's path: no record is addressed to the node
\* from which the sender received the copy.
C20_NoPingPong ==
    (TickDone /\ (message_type = "learning" \/ run_modes = {"flooding"})) =>
        /\ \A i \in DOMAIN decisions :
              LET d == decisions[i]
              IN d.node # messages[d.mid].target =>
                    Range(d.receivers)
                        = network.neighbors[d.node] \ Predecessor(d.path)
        /\ \A j \in DOMAIN transmission_queue :
              transmission_queue[j][2] \notin Predecessor(transmission_queue[j][4])

\* the knowledge tree has no entry list for the source or none for the
\* target of m
LacksEndpoint(tree_n, m) == tree_n[m.source] = <<>> \/ tree_n[m.target] = <<>>

\* C21: in a comparison tick under the tree-aware policy, a non-target
\* node whose knowledge tree (as it is when the tick starts) lacks the
\* message's source or its target chooses the receivers that the flood
\* rule gives for the same copy, and emits one record to each of them.
C21_MissingKnowledgeFloods ==
    [][(/\ current_frame' = current_frame + 1
        /\ message_type = "comparison"
        /\ algorithm_mode = "tree") =>
        \A i \in DOMAIN decisions' :
            LET d == decisions'[i]
                m == messages[d.mid]
            IN (/\ d.node # m.target
                /\ LacksEndpoint(knowledge_tree[d.node], m))
               => /\ d.receivers = _flooding_decision(network.neighbors[d.node])
                  /\ \A nb \in network.neighbors[d.node] :
                         \E j \in DOMAIN transmission_queue' :
                             /\ transmission_queue'[j][1] = d.node
                             /\ transmission_queue'[j][2] = nb
                             /\ transmission_queue'[j][3] = d.mid
                             /\ transmission_queue'[j][4] = d.path
    ]_vars

\* C21 witness: in a run under the tree-aware policy a forwarding node
\* that knows the source but not the target sent to all its neighbors
C21_Witness ==
    /\ TickDone
    /\ message_type = "comparison"
    /\ run_modes = {"tree"}
    /\ \E i \in DOMAIN decisions :
          LET d == decisions[i]
              m == messages[d.mid]
          IN /\ d.node # m.target
             /\ knowledge_tree[d.node][m.source] # <<>>
             /\ knowledge_tree[d.node][m.target] = <<>>
             /\ Range(d.receivers) = network.neighbors[d.node]

\* the nodes that can be reached from the nodes of S along links of the
\* topology without entering the node avoid
RECURSIVE ReachAvoiding(_, _, _)
ReachAvoiding(nbrs, S, avoid) ==
    LET T == S \cup (UNION {nbrs[v] : v \in S} \ {avoid})
    IN IF T = S THEN S ELSE ReachAvoiding(nbrs, T, avoid)

\* C22: whenever a non-target node suppresses a message in a comparison
\* tick under the tree-aware policy, the node is not the message's source
\* and the topology has a path from the source to the target that does
\* not pass through the node.
C22_SuppressionSound ==
    [][(/\ current_frame' = current_frame + 1
        /\ message_type = "comparison"
        /\ algorithm_mode = "tree") =>
        \A i \in DOMAIN decisions' :
            LET d == decisions'[i]
                m == messages[d.mid]
            IN (d.node # m.target /\ d.receivers = <<>>) =>
                  /\ d.node # m.source
                  /\ m.target \in ReachAvoiding(network.neighbors, {m.source},
                                                d.node)
    ]_vars

\* C22 witness: a node on a ring suppressed a message whose endpoints
\* are joined by the other side of the ring
C22_Witness ==
    /\ TickDone
    /\ message_type = "comparison"
    /\ algorithm_mode = "tree"
    /\ \E i \in DOMAIN decisions :
          LET d == decisions[i]
              m == messages[d.mid]
          IN /\ d.node \notin {m.source, m.target}
             /\ d.receivers = <<>>
             /\ m.target \in ReachAvoiding(network.neighbors, {m.source}, d.node)

(***************************************************************************)
(* The two phases in sequence: a learning phase builds the knowledge      *)
(* trees, then the comparison phase runs its own messages on the same      *)
(* nodes.                                                                  *)
(***************************************************************************)
\* learning workloads on the ring: two messages, any endpoints
RingLearningConfigs ==
    {[topo |-> tp,
      msgs |-> Two(NewMessage(p[1], p[2], DefaultHopLimit, 1),
                   NewMessage(q[1], q[2], DefaultHopLimit, 1 + message_interval))] :
        tp \in {Ring5, Ring5Chord}, p \in Pairs(5), q \in Pairs(5)}

\* comparison workloads that follow: one message from node 0
RingComparisonWorkloads ==
    {One(NewMessage(0, tg, hl, 1)) : tg \in {1, 2, 3}, hl \in 2..DefaultHopLimit}

InitLearning ==
    /\ message_type = "learning"
    /\ message_class \in MessageClasses
    /\ \E c \in RingLearningConfigs :
          /\ network = c.topo
          /\ messages = c.msgs
    /\ pending_messages = [nd \in Nodes |-> <<>>]
    /\ received_messages = [nd \in Nodes |-> <<>>]
    /\ received_message_ids = [nd \in Nodes |-> {}]
    /\ seen_message_copies = [nd \in Nodes |-> {}]
    /\ status_flags = [nd \in Nodes |-> ClearFlags]
    /\ knowledge_tree = [nd \in Nodes |-> [d \in Nodes |-> <<>>]]
    /\ current_frame = 0
    /\ algorithm_mode = "flooding"
    /\ transmission_queue = <<>>
    /\ collision_nodes = {}
    /\ successful_receives = <<>>
    /\ completed_messages = <<>>
    /\ expired_messages = <<>>
    /\ decisions = <<>>
    /\ snapshots = <<>>
    /\ prev_snapshots = <<>>
    /\ run_modes = {}
    /\ prev_run_modes = {}
    /\ resets = 0
    /\ mode_switches = 0
    /\ stats = InitialStats
    /\ subtree_call = NoCall

\* the comparison phase starts when the learning phase is complete: the
\* comparison manager gets its messages and the nodes' volatile state is
\* cleared, the knowledge trees are kept
StartComparisonPhase ==
    /\ message_type = "learning"
    /\ is_complete(messages, current_frame, learning_frames(messages))
    /\ \E msgs \in RingComparisonWorkloads :
          LET s == reset_simulation([State EXCEPT !.msgs = msgs])
          IN /\ messages' = s.msgs
             /\ pending_messages' = s.pend
             /\ received_messages' = s.inbox
             /\ received_message_ids' = s.ids
             /\ seen_message_copies' = s.copies
             /\ status_flags' = s.flags
             /\ stats' = NewStats(msgs, TotalFrames)
    /\ UNCHANGED subtree_call
    /\ message_type' = "comparison"
    /\ current_frame' = 0
    /\ transmission_queue' = <<>>
    /\ collision_nodes' = {}
    /\ successful_receives' = <<>>
    /\ completed_messages' = <<>>
    /\ expired_messages' = <<>>
    /\ decisions' = <<>>
    /\ prev_snapshots' = <<>>
    /\ snapshots' = <<>>
    /\ prev_run_modes' = {}
    /\ run_modes' = {}
    /\ UNCHANGED <<network, knowledge_tree, algorithm_mode, message_class,
                   resets, mode_switches>>

NextTwoPhases ==
    \/ ExecuteLearningFrame
    \/ StartComparisonPhase
    \/ ExecuteComparisonFrame
    \/ SetAlgorithmMode

SpecTwoPhases == InitLearning /\ [][NextTwoPhases]_vars

\* a whole comparison run under one policy, from the state s before the
\* tick with ordinal frame + 1
RECURSIVE RunToEnd(_, _, _, _)
RunToEnd(s, frame, mode, cls) ==
    IF is_complete(s.msgs, frame, TotalFrames) THEN s
    ELSE RunToEnd(execute_comparison_frame(s, frame, mode, cls), frame + 1,
                  mode, cls)

Succeeded(m) == m.is_completed /\ m.status = "SUCCESS"

\* C23: for a single-message comparison workload that starts from learned
\* knowledge trees, if the run under flood completes the message with
\* SUCCESS then so does the run under the tree-aware policy.
C23_SuppressionRedundant ==
    (/\ message_type = "comparison"
     /\ current_frame = 0
     /\ Cardinality(DOMAIN messages) = 1) =>
        \A mid \in DOMAIN messages :
            Succeeded(RunToEnd(State, 0, "flooding", message_class).msgs[mid])
            => Succeeded(RunToEnd(State, 0, "tree", message_class).msgs[mid])

\* C23 witness: the start of a comparison phase after a learning phase
\* whose trees make the run under the tree-aware policy differ from the
\* run under flood (some node suppresses), both ending in SUCCESS
C23_Witness ==
    /\ message_type = "comparison"
    /\ current_frame = 0
    /\ Cardinality(DOMAIN messages) = 1
    /\ \A mid \in DOMAIN messages :
          /\ Succeeded(RunToEnd(State, 0, "flooding", message_class).msgs[mid])
          /\ Succeeded(RunToEnd(State, 0, "tree", message_class).msgs[mid])
    /\ RunToEnd(State, 0, "flooding", message_class).tree
          # RunToEnd(State, 0, "tree", message_class).tree

\* C24: half-duplex radio: at the end of no tick does a node have both its
\* sending flag (it emitted a transmission record in the tick) and its
\* receiving flag (it accepted a delivery in the tick) set.
C24_HalfDuplex ==
    \A nd \in Nodes :
        ~(status_flags[nd].sending /\ status_flags[nd].receiving)

\* C25: in both phases an admitted message is marked as seen on its source
\* node, so while the message is in flight its id is in the source's
\* received_message_ids, and no stored path comes back to the source.
C25_SourceMarkedSeen ==
    \A mid \in DOMAIN messages :
        LET m == messages[mid]
        IN /\ (m.is_active /\ ~m.is_completed)
                  => mid \in received_message_ids[m.source]
           /\ \A k \in 1..Len(m.paths) :
                  \A i \in 2..Len(m.paths[k]) : m.paths[k][i] # m.source

\* the state in which the expiry sweep of a tick starts: after the flag
\* reset and the admission, with the locals of process_transmissions empty
BeforeSweep(s, frame, mtype) ==
    [BeforeTransmissions(s, frame, mtype)
        EXCEPT !.expired = <<>>, !.queue = <<>>, !.sending = <<>>,
               !.collisions = {}, !.receives = <<>>, !.completed = <<>>,
               !.decisions = <<>>]

\* C26: in every tick, a message that is active, not completed and has no
\* outbox entry on any node when the expiry sweep starts is completed when
\* the tick ends, and every message that the stall check completes has no
\* outbox entry on any node when the stall check runs.
C26_StallCheck ==
    [][(current_frame' = current_frame + 1) =>
        LET s0 == BeforeSweep(State, current_frame, message_type)
            s1 == ExpireNodes(s0, 1, message_class)
            s2 == _check_stalled_messages(s1, message_class)
        IN \A mid \in DOMAIN messages :
              /\ (/\ s0.msgs[mid].is_active
                  /\ ~s0.msgs[mid].is_completed
                  /\ ~HasPending(s0, mid))
                    => /\ s2.msgs[mid].is_completed
                       /\ messages'[mid].is_completed
              /\ (~s1.msgs[mid].is_completed /\ s2.msgs[mid].is_completed)
                    => ~HasPending(s1, mid)
    ]_vars

\* C26 witness: a tick completed a message none of whose copies had used
\* up its hop limit, so the stall check completed it, while another
\* message of the workload stays queued on some node and is not completed
C26_Witness ==
    /\ TickDone
    /\ \E mid \in DOMAIN messages :
          /\ messages[mid].is_completed
          /\ mid \in Range(expired_messages)
          /\ \A k \in 1..Len(messages[mid].paths) :
                 HopsUsed(messages[mid].paths[k]) < messages[mid].hop_limit
    /\ \E other \in DOMAIN messages :
          /\ ~messages[other].is_completed
          /\ \E nd \in Nodes : \E i \in DOMAIN pending_messages[nd] :
                 pending_messages[nd][i][1] = other

\* _collect_transmissions after the first k nodes of its loop
RECURSIVE CollectPrefix(_, _, _, _, _)
CollectPrefix(s, k, mtype, mode, cls) ==
    IF k = 0 THEN s
    ELSE CollectNode(CollectPrefix(s, k - 1, mtype, mode, cls), k - 1,
                     mtype, mode, cls)

\* the records that the k-th node of the collection loop adds to the queue
\* carry messages that are active and not completed at that moment
CollectedLive(s, k, mtype, mode, cls) ==
    LET sb == CollectPrefix(s, k - 1, mtype, mode, cls)
        sa == CollectNode(sb, k - 1, mtype, mode, cls)
    IN \A j \in (Len(sb.queue) + 1)..Len(sa.queue) :
           /\ sb.msgs[sa.queue[j][3]].is_active
           /\ ~sb.msgs[sa.queue[j][3]].is_completed
           /\ sa.msgs[sa.queue[j][3]].is_active
           /\ ~sa.msgs[sa.queue[j][3]].is_completed

\* C27: when a tick ends no node's outbox holds an entry for a completed
\* message, and every transmission record of the tick carries a message
\* that was active and not completed when the record was collected.
C27_NoDeadTraffic ==
    [][(current_frame' = current_frame + 1) =>
        LET s1 == _check_expired_messages(
                      BeforeSweep(State, current_frame, message_type),
                      message_class)
        IN /\ \A nd \in Nodes : \A i \in DOMAIN pending_messages'[nd] :
                  ~messages'[pending_messages'[nd][i][1]].is_completed
           /\ \A k \in 1..network.n :
                  CollectedLive(s1, k, message_type, algorithm_mode, message_class)
           /\ transmission_queue' =
                  CollectPrefix(s1, network.n, message_type, algorithm_mode,
                                message_class).queue
    ]_vars

\* C27 witness: a tick transmitted a message and completed it on
\* reception, while another message that is not completed stays queued
C27_Witness ==
    /\ TickDone
    /\ \E mid \in Range(completed_messages) :
          /\ messages[mid].is_completed
          /\ \E j \in DOMAIN transmission_queue : transmission_queue[j][3] = mid
          /\ \A nd \in Nodes : \A i \in DOMAIN pending_messages[nd] :
                 pending_messages[nd][i][1] # mid
          /\ \E other \in DOMAIN messages \ {mid} :
                 /\ ~messages[other].is_completed
                 /\ \E nd \in Nodes : \E i \in DOMAIN pending_messages[nd] :
                        pending_messages[nd][i][1] = other

\* the nodes that are the source (the target) of a message in flight
ActiveSources == {messages[mid].source : mid \in {x \in DOMAIN messages :
                     messages[x].is_active /\ ~messages[x].is_completed}}

ActiveTargets == {messages[mid].target : mid \in {x \in DOMAIN messages :
                     messages[x].is_active /\ ~messages[x].is_completed}}

\* C28: at the end of every tick a node's source flag is set iff some
\* active, not-completed message has the node as its source, and its
\* target flag is set iff some active, not-completed message has the node
\* as its target.
C28_EndpointFlags ==
    TickDone =>
        \A nd \in Nodes :
            /\ status_flags[nd].source <=> nd \in ActiveSources
            /\ status_flags[nd].target <=> nd \in ActiveTargets

\* C28 witness: two messages with the same source were completed in the
\* same tick and the source flag of their source is cleared
C28_Witness ==
    /\ TickDone
    /\ \E m0, m1 \in DOMAIN messages :
          LET done == Range(expired_messages) \cup Range(completed_messages)
          IN /\ m0 # m1
             /\ messages[m0].source = messages[m1].source
             /\ m0 \in done /\ m1 \in done
             /\ messages[m0].is_completed /\ messages[m1].is_completed
             /\ ~status_flags[messages[m0].source].source

\* a knowledge-tree entry without its learned_frame
RouteOf(e) == [parent |-> e.parent, distance |-> e.distance, next_hop |-> e.next_hop]

\* the entries for destination d that the path p = [p0, ..., pk], pk = self,
\* is to give: one per position i < k with p[i] = d, in the order of the path
EntriesOfPath(p, self, d) ==
    LET k == Len(p) - 1
        all == [j \in 1..k |->
                   [dest |-> p[j],
                    route |-> [parent |-> IF k - (j - 1) >= 2 THEN p[j + 1] ELSE self,
                               distance |-> k - (j - 1),
                               next_hop |-> p[k]]]]
        mine == SelectSeq(all, LAMBDA x : x.dest = d)
    IN [j \in DOMAIN mine |-> mine[j].route]

\* C29: a node that accepts a copy in a tick, the new path being
\* p = [p0, ..., pk] with pk the node, gets exactly k new knowledge-tree
\* entries in that tick, one per i < k: destination p[i], distance k - i,
\* parent p[i+1] when the distance is at least 2 and the node itself
\* otherwise, next_hop p[k-1].
C29_EntriesOfAcceptedCopy ==
    [][(current_frame' = current_frame + 1) =>
        \A a \in DOMAIN successful_receives' :
            LET sender == successful_receives'[a][1]
                self == successful_receives'[a][2]
                mid == successful_receives'[a][3]
            IN \A j \in DOMAIN transmission_queue' :
                   (/\ transmission_queue'[j][1] = sender
                    /\ transmission_queue'[j][2] = self
                    /\ transmission_queue'[j][3] = mid) =>
                       \A d \in Nodes :
                           LET old == knowledge_tree[self][d]
                               new == knowledge_tree'[self][d]
                               added == SubSeq(new, Len(old) + 1, Len(new))
                           IN [x \in DOMAIN added |-> RouteOf(added[x])]
                                 = EntriesOfPath(NewPath(transmission_queue'[j][4], self),
                                                 self, d)
    ]_vars

\* C30: every knowledge-tree entry appended during the reception
\* processing of a tick carries as learned_frame the ordinal of that tick
\* (the value of the frame counter when the tick ends).
C30_LearnedFrameIsTick ==
    [][(current_frame' = current_frame + 1) =>
        \A nd \in Nodes : \A d \in Nodes :
            \A x \in (Len(knowledge_tree[nd][d]) + 1)..Len(knowledge_tree'[nd][d]) :
                knowledge_tree'[nd][d][x].learned_frame = current_frame'
    ]_vars

\* the orderings that are tried: every permutation of up to MaxPermuted
\* items, and for longer lists the list, its reverse and its rotations
MaxPermuted == 4

IndexPermutations(k) ==
    {f \in [1..k -> 1..k] : \A i, j \in 1..k : f[i] = f[j] => i = j}

AllPermutations == [k \in 0..MaxPermuted |-> IndexPermutations(k)]

Orderings(k) ==
    IF k <= MaxPermuted THEN AllPermutations[k]
    ELSE {[i \in 1..k |-> k + 1 - i]}
         \cup {[i \in 1..k |-> ((i - 1 + r) % k) + 1] : r \in 0..(k - 1)}

\* _collect_transmissions with the nodes visited in the given order
RECURSIVE CollectInOrder(_, _, _, _, _, _)
CollectInOrder(s, order, k, mtype, mode, cls) ==
    IF k > Len(order) THEN s
    ELSE CollectInOrder(CollectNode(s, order[k] - 1, mtype, mode, cls),
                        order, k + 1, mtype, mode, cls)

\* the collision victims and the accepted deliveries of a record list
TickOutcome(s) ==
    LET r == _process_receptions(_detect_collisions(s))
    IN <<r.collisions, Range(r.receives)>>

\* C31: the collision victims and the accepted deliveries of a tick are
\* the same for every order in which the nodes are visited when the
\* records are collected and for every ordering of the record list.
C31_OrderIndependent ==
    [][(current_frame' = current_frame + 1) =>
        LET s1 == _check_expired_messages(
                      BeforeSweep(State, current_frame, message_type),
                      message_class)
        IN \A order \in Orderings(network.n) :
              LET s2 == CollectInOrder(s1, order, 1, message_type,
                                       algorithm_mode, message_class)
              IN \A perm \in Orderings(Len(s2.queue)) :
                    TickOutcome([s2 EXCEPT !.queue =
                                    [i \in 1..Len(s2.queue) |-> s2.queue[perm[i]]]])
                        = <<collision_nodes', Range(successful_receives')>>
    ]_vars

\* C31 witness: a tick with records of at least two senders in which one
\* node is a collision victim and another node accepted a delivery
C31_Witness ==
    /\ TickDone
    /\ collision_nodes # {}
    /\ successful_receives # <<>>
    /\ Cardinality({transmission_queue[i][1] : i \in DOMAIN transmission_queue}) >= 2

\* C32: every tick t of a comparison run adds its number of transmission
\* records to total_transmissions_attempted and its number of accepted
\* deliveries to total_transmissions_received (so that at the end of the
\* run the totals count all ticks, tick 1 included), and entry t of each
\* per-frame array holds the count of tick t.
C32_StatsCountEveryTick ==
    [][(current_frame' = current_frame + 1 /\ message_type = "comparison") =>
        LET t == current_frame'
        IN /\ stats'.total_transmissions_attempted =
                  stats.total_transmissions_attempted + Len(transmission_queue')
           /\ stats'.total_transmissions_received =
                  stats.total_transmissions_received + Len(successful_receives')
           /\ stats'.transmissions_per_frame[t] = Len(transmission_queue')
           /\ stats'.receptions_per_frame[t] = Len(successful_receives')
           /\ stats'.collisions_per_frame[t] = Cardinality(collision_nodes')
           /\ stats'.active_messages_per_frame[t] =
                  Cardinality({mid \in DOMAIN messages' : messages'[mid].is_active})
    ]_vars

\* C33: every message completed in a comparison run, however it completed,
\* has a statistics record whose success flag is true exactly when the
\* message's status is SUCCESS and whose frames-to-completion is non-zero.
C33_CompletionRecorded ==
    message_type = "comparison" =>
        \A mid \in DOMAIN messages :
            messages[mid].is_completed =>
                /\ stats.message_details[mid].success
                       <=> (get_status(messages[mid]) = "SUCCESS")
                /\ stats.message_details[mid].frames_to_complete # 0

\* get_detailed_statistics: the final path reported for message m
ReportedFinalPath(m) == IF m.paths # <<>> THEN Last(m.paths) ELSE <<>>

\* C34: for every message completed with SUCCESS, the final path of the
\* statistics (the stored record and the report of get_detailed_statistics)
\* is a discovered path that ends at the message's target, and no discovered
\* path that ends at the target is longer.
C34_FinalPathReachesTarget ==
    message_type = "comparison" =>
        \A mid \in DOMAIN messages :
            LET m == messages[mid]
            IN (m.is_completed /\ get_status(m) = "SUCCESS") =>
                   \A fp \in {stats.message_details[mid].final_path,
                               ReportedFinalPath(m)} :
                       /\ fp \in Range(m.paths)
                       /\ Last(fp) = m.target
                       /\ \A q \in Range(m.paths) :
                              Last(q) = m.target => Len(q) <= Len(fp)

\* C35: in a learning tick every routing decision of a non-target node is
\* the flood rule's, whatever algorithm mode the message processor has: the
\* node chooses all its neighbors and emits one record to each of them, so
\* no learning transmission is suppressed by a knowledge tree.
C35_LearningAlwaysFloods ==
    [][(current_frame' = current_frame + 1 /\ message_type = "learning") =>
        \A i \in DOMAIN decisions' :
            LET d == decisions'[i]
                m == messages[d.mid]
            IN d.node # m.target
               => /\ d.receivers = _flooding_decision(network.neighbors[d.node])
                  /\ \A nb \in network.neighbors[d.node] :
                         \E j \in DOMAIN transmission_queue' :
                             /\ transmission_queue'[j][1] = d.node
                             /\ transmission_queue'[j][2] = nb
                             /\ transmission_queue'[j][3] = d.mid
                             /\ transmission_queue'[j][4] = d.path
    ]_vars

\* C35 witness: a learning tick with the tree mode selected in which a node
\* whose knowledge tree (unchanged by the tick) holds the message's source
\* and target in one subtree sent to all its neighbors
C35_Witness ==
    /\ TickDone
    /\ message_type = "learning"
    /\ algorithm_mode = "tree"
    /\ \E i \in DOMAIN decisions :
          LET d == decisions[i]
              m == messages[d.mid]
          IN /\ d.node # m.target
             /\ \A k \in DOMAIN successful_receives :
                    successful_receives[k][2] # d.node
             /\ _tree_based_decision(knowledge_tree[d.node], d.node,
                                     network.neighbors[d.node], m) = <<>>
             /\ Range(d.receivers) = network.neighbors[d.node]
             /\ d.receivers # <<>>

\* C36: a message admitted in tick s (s = start_frame) is completed by the
\* end of tick s + hop_limit, in either phase and under either policy:
\* once the frame counter has reached start_frame + hop_limit the message
\* is completed.
C36_CompletedWithinHopLimit ==
    \A mid \in DOMAIN messages :
        LET m == messages[mid]
        IN current_frame >= m.start_frame + m.hop_limit => m.is_completed

\* C36 witness: a message was completed by the stall check or the expiry
\* sweep of tick start_frame + hop_limit, the last tick the bound allows
C36_Witness ==
    \E mid \in DOMAIN messages :
        LET m == messages[mid]
        IN /\ current_frame = m.start_frame + m.hop_limit
           /\ m.is_completed
           /\ mid \in Range(expired_messages)

\* a message as generate_comparison_messages makes it: hop limit 4 and a
\* start frame between 1 and total_frames - 4
IsGenerated(m) ==
    /\ m.hop_limit = DefaultHopLimit
    /\ m.start_frame \in 1..(TotalFrames - StartFrameMargin)

\* C37: when the comparison phase terminates because the frame counter has
\* reached total_frames, every message of the generator's shape is
\* completed: none is still waiting or active.
C37_AllCompletedAtEnd ==
    (message_type = "comparison" /\ current_frame >= TotalFrames) =>
        \A mid \in DOMAIN messages :
            IsGenerated(messages[mid]) =>
                /\ messages[mid].is_completed
                /\ ~messages[mid].is_active

\* C37 witness: the phase ran to total_frames and a message with the latest
\* start frame the generator allows was completed in the last tick
C37_Witness ==
    /\ message_type = "comparison"
    /\ current_frame = TotalFrames
    /\ \E mid \in DOMAIN messages :
          /\ IsGenerated(messages[mid])
          /\ messages[mid].start_frame = TotalFrames - StartFrameMargin
          /\ messages[mid].is_completed
          /\ mid \in Range(expired_messages) \cup Range(completed_messages)

\* C38: in a comparison tick under the tree-aware policy, a message that is
\* admitted in the tick is not suppressed at its source: the tick's records
\* hold one record from the source to each of its neighbors, with the path
\* [source] and the full hop limit, whatever the source's knowledge tree
\* contains.
C38_SourceAlwaysSends ==
    [][(/\ current_frame' = current_frame + 1
        /\ message_type = "comparison"
        /\ algorithm_mode = "tree") =>
        \A mid \in DOMAIN messages :
            LET m == messages[mid]
            IN StartsNow(m, current_frame) =>
                  \A nb \in network.neighbors[m.source] :
                      \E j \in DOMAIN transmission_queue' :
                          transmission_queue'[j] =
                              <<m.source, nb, mid, <<m.source>>, m.hop_limit>>
    ]_vars

\* C38 witness: under the tree-aware policy a source whose knowledge tree
\* already holds the message's target sent to all its neighbors in the
\* admission tick
C38_Witness ==
    /\ message_type = "comparison"
    /\ algorithm_mode = "tree"
    /\ \E mid \in DOMAIN messages :
          LET m == messages[mid]
          IN /\ current_frame = m.start_frame
             /\ m.is_active
             /\ knowledge_tree[m.source][m.target] # <<>>
             /\ \A k \in DOMAIN successful_receives :
                    successful_receives[k][2] # m.source
             /\ \A nb \in network.neighbors[m.source] :
                    \E j \in DOMAIN transmission_queue :
                        transmission_queue[j] =
                            <<m.source, nb, mid, <<m.source>>, m.hop_limit>>

\* C39: at the end of every tick every outbox entry (message, path, budget)
\* of every node has budget > 0 and budget = hop_limit - (|path| - 1), all
\* entries of one message on all nodes have the same path length, and the
\* first loop of the tick's expiry sweep found no entry to expire.
C39_OutboxBudgets ==
    [][(current_frame' = current_frame + 1) =>
        LET entries == UNION {Range(pending_messages'[nd]) :
                                  nd \in DOMAIN pending_messages'}
            s0 == BeforeSweep(State, current_frame, message_type)
        IN /\ \A item \in entries :
                  /\ Len(item) = 3
                  /\ item[3] > 0
                  /\ item[3] = messages[item[1]].hop_limit - (Len(item[2]) - 1)
           /\ \A a, b \in entries : a[1] = b[1] => Len(a[2]) = Len(b[2])
           /\ ExpireNodes(s0, 1, message_class).expired = <<>>
           /\ ExpireNodes(s0, 1, message_class).pend = s0.pend
    ]_vars

\* C39 witness: at the end of a tick two nodes hold entries of the same
\* message, with paths of three nodes or more and budget left
C39_Witness ==
    \E n1, n2 \in DOMAIN pending_messages :
        /\ n1 # n2
        /\ \E i \in DOMAIN pending_messages[n1], j \in DOMAIN pending_messages[n2] :
              /\ pending_messages[n1][i][1] = pending_messages[n2][j][1]
              /\ Len(pending_messages[n1][i][2]) >= 3
              /\ pending_messages[n1][i][3] > 0

(***************************************************************************)
(* Node._is_in_subtree executed one loop iteration at a time, on knowledge *)
(* trees that need not come from observed paths.                           *)
(***************************************************************************)
\* number of entries of a knowledge tree given to the test
MaxTreeEntries == 3
\* iterations after which the stepping stops
MaxIterations == 2 * (MaxTreeEntries + 1)

\* a knowledge-tree entry with the given parent
EntryWithParent(p) ==
    [parent |-> p, distance |-> 1, learned_frame |-> DefaultCurrentFrame,
     next_hop |-> p]

\* the lists of at most MaxTreeEntries links (destination, parent) over S,
\* in the order in which the entries were appended
EntryLinks(S) == UNION {[1..k -> S \X S] : k \in 0..MaxTreeEntries}

\* the knowledge tree that holds one entry per link
TreeOf(links, S) ==
    [d \in S |->
        LET mine == SelectSeq(links, LAMBDA l : l[1] = d)
        IN [i \in 1..Len(mine) |-> EntryWithParent(mine[i][2])]]

\* every knowledge tree over the nodes S with at most MaxTreeEntries
\* entries: any parent links, cycles and links to any node included
ArbitraryTrees(S) == {TreeOf(links, S) : links \in EntryLinks(S)}

\* the nodes of the topology the test runs on
TriangleNodes == 0..(Triangle.n - 1)

InitSubtree ==
    /\ \E tr \in ArbitraryTrees(TriangleNodes) :
          \E self \in TriangleNodes, node \in TriangleNodes,
             subtree_root \in TriangleNodes :
              /\ knowledge_tree =
                     [nd \in TriangleNodes |->
                         IF nd = self THEN tr
                         ELSE [d \in TriangleNodes |-> <<>>]]
              /\ subtree_call = [NoCall EXCEPT !.pc = "call", !.self = self,
                                               !.node = node,
                                               !.subtree_root = subtree_root]
    /\ message_type = "comparison"
    /\ message_class = "message"
    /\ network = Triangle
    /\ messages = <<>>
    /\ pending_messages = [nd \in Nodes |-> <<>>]
    /\ received_messages = [nd \in Nodes |-> <<>>]
    /\ received_message_ids = [nd \in Nodes |-> {}]
    /\ seen_message_copies = [nd \in Nodes |-> {}]
    /\ status_flags = [nd \in Nodes |-> ClearFlags]
    /\ current_frame = 0
    /\ algorithm_mode = "tree"
    /\ transmission_queue = <<>>
    /\ collision_nodes = {}
    /\ successful_receives = <<>>
    /\ completed_messages = <<>>
    /\ expired_messages = <<>>
    /\ decisions = <<>>
    /\ snapshots = <<>>
    /\ prev_snapshots = <<>>
    /\ run_modes = {}
    /\ prev_run_modes = {}
    /\ resets = 0
    /\ mode_switches = 0
    /\ stats = InitialStats

\* what a step of the call leaves alone
SubtreeFrame ==
    UNCHANGED <<network, messages, pending_messages, received_messages,
                received_message_ids, seen_message_copies, status_flags,
                knowledge_tree, current_frame, algorithm_mode, message_type,
                message_class, transmission_queue, collision_nodes,
                successful_receives, completed_messages, expired_messages,
                decisions, snapshots, prev_snapshots, run_modes,
                prev_run_modes, resets, mode_switches, stats>>

\* _is_in_subtree up to the while loop: the two early returns and the
\* initial values of visited and nodes_to_check
IsInSubtreeEnter ==
    /\ subtree_call.pc = "call"
    /\ LET c == subtree_call
           tree_n == knowledge_tree[c.self]
       IN subtree_call' =
              IF c.node = c.subtree_root
              THEN [c EXCEPT !.pc = "done", !.result = TRUE]
              ELSE IF tree_n[c.node] = <<>>
              THEN [c EXCEPT !.pc = "done", !.result = FALSE]
              ELSE [c EXCEPT !.pc = "loop", !.nodes_to_check = <<c.node>>,
                             !.visited = {}]
    /\ SubtreeFrame

\* _is_in_subtree: the loop test and, when nodes_to_check is not empty, one
\* iteration of the while loop
IsInSubtreeLoop ==
    /\ subtree_call.pc = "loop"
    /\ subtree_call.iterations < MaxIterations
    /\ LET c == subtree_call
           tree_n == knowledge_tree[c.self]
       IN subtree_call' =
              IF c.nodes_to_check = <<>>
              THEN [c EXCEPT !.pc = "done", !.result = FALSE]
              ELSE LET r == LoopIteration(tree_n, c.self, c.subtree_root,
                                          c.nodes_to_check, c.visited)
                   IN [c EXCEPT !.pc = IF r.returned THEN "done" ELSE "loop",
                                !.result = r.returned,
                                !.nodes_to_check = r.nodes_to_check,
                                !.visited = r.visited,
                                !.iterations = @ + 1]
    /\ SubtreeFrame

NextSubtree ==
    \/ IsInSubtreeEnter
    \/ IsInSubtreeLoop

\* the call keeps running until it returns
SpecSubtree == InitSubtree /\ [][NextSubtree]_vars /\ WF_vars(NextSubtree)

\* C40: every call of _is_in_subtree, on any knowledge tree (parent links
\* that form cycles and parent links to the node itself included),
\* eventually returns, and what it returns is a boolean.
C40_SubtreeTestTerminates ==
    <>(subtree_call.pc = "done" /\ subtree_call.result \in BOOLEAN)

\* C40 witness: the test returned after its loop visited two nodes that are
\* each other's parent, one of which is also its own parent
C40_Witness ==
    /\ subtree_call.pc = "done"
    /\ LET tree_n == knowledge_tree[subtree_call.self]
       IN \E x, y \in Nodes \ {subtree_call.self} :
             /\ x # y
             /\ {x, y} \subseteq subtree_call.visited
             /\ \E i \in DOMAIN tree_n[x] : tree_n[x][i].parent = y
             /\ \E i \in DOMAIN tree_n[y] : tree_n[y][i].parent = x
             /\ \E i \in DOMAIN tree_n[y] : tree_n[y][i].parent = y

====
